---------------------------- MODULE Spec2Model ----------------------------
(***************************************************************************)
(* A model of lithdew/quickjs, the Go binding of the QuickJS engine.       *)
(*                                                                         *)
(* src/quickjs.go holds two variants of the binding: the explicit-Free     *)
(* variant (lines 1-491) and the finalizer variant (lines 493-997).  The   *)
(* engine itself (JS_Eval, JS_GetException, JS_ExecutePendingJob, ...) is  *)
(* an external library; it is modelled by its C ABI contract, and every    *)
(* wrapper function of the binding is modelled from its Go source.         *)
(***************************************************************************)
EXTENDS Integers, Sequences, FiniteSets, TLC

(***************************************************************************)
(* Bounds of the model.                                                    *)
(***************************************************************************)
NumContexts == 2
MaxFuncs == 2
MaxArgs == 2
MaxLen == 2

Contexts == 1..NumContexts
NoCtx == 0
Names == {"A", "B"}

(***************************************************************************)
(* Byte strings.  A Go string is a sequence of bytes; 0 is the NUL byte.   *)
(***************************************************************************)
NUL == 0
Bytes == {NUL, 97}
ByteStrings(n) == UNION {[1..k -> Bytes] : k \in 0..n}

RECURSIVE CStrLen(_)
\* strlen: the number of bytes before the first NUL of a C string.
CStrLen(p) ==
    IF p = <<>> \/ Head(p) = NUL THEN 0 ELSE 1 + CStrLen(Tail(p))

\* C.CString(s): a copy of the bytes of s followed by a terminating NUL.
CString(s) == s \o <<NUL>>

\* C.GoString(p): the bytes of the C string p up to its first NUL.
GoString(p) == SubSeq(p, 1, CStrLen(p))

StrError == <<69, 114, 114, 111, 114>>
StrSyntaxError == <<83, 121, 110, 116, 97, 120>> \o StrError
StrReferenceError == <<82, 101, 102>> \o StrError
StrInternalError == <<73, 110, 116>> \o StrError
StrTypeError == <<84, 121, 112, 101>> \o StrError
StrColonSpace == <<58, 32>>

(***************************************************************************)
(* Engine values (JSValue).  tag is the value's type; n carries a number,  *)
(* an error's class or a function's bound token; s carries string bytes   *)
(* or an error's message; stack is an error object's "stack" property     *)
(* (empty: the property is undefined).                                     *)
(***************************************************************************)
JSVal(tag, n, s, stack) == [tag |-> tag, n |-> n, s |-> s, stack |-> stack]
JS_NULL == JSVal("null", 0, <<>>, <<>>)
JS_UNDEFINED == JSVal("undefined", 0, <<>>, <<>>)
JS_EXCEPTION == JSVal("exception", 0, <<>>, <<>>)
JSInt(n) == JSVal("int", n, <<>>, <<>>)
JSStr(s) == JSVal("string", 0, s, <<>>)

ClassError == 0
ClassSyntaxError == 1
ClassReferenceError == 2
ClassInternalError == 3
ClassTypeError == 4
JSErrorObj(class, msg, stack) == JSVal("error", class, msg, stack)
\* The script function the shim returns: "proxy pre-bound with this token".
JSFunc(idVal) == JSVal("function", idVal.n, <<>>, <<>>)
\* The backtrace the engine attaches to the errors it throws itself.
EngineStack == <<97>>

ErrorName(class) ==
    CASE class = ClassError -> StrError
      [] class = ClassSyntaxError -> StrSyntaxError
      [] class = ClassReferenceError -> StrReferenceError
      [] class = ClassTypeError -> StrTypeError
      [] OTHER -> StrInternalError

\* JS_IsException / JS_IsError of the engine.
IsException(v) == v.tag = "exception"
IsError(v) == v.tag = "error"

\* JS_NewString(ctx, ptr): the engine reads the C string up to its NUL.
JS_NewString(p) == JSStr(GoString(p))

\* Error.prototype.toString of the engine: name, and ": " message when
\* neither is empty.
ErrorToString(v) ==
    IF v.s = <<>> THEN ErrorName(v.n)
    ELSE ErrorName(v.n) \o StrColonSpace \o v.s

\* JS_ToCString(ctx, v): the string form of v as a NUL-terminated C string.
JS_ToCString(v) ==
    CASE v.tag = "error" -> CString(ErrorToString(v))
      [] v.tag = "string" -> CString(v.s)
      [] v.tag = "null" -> CString(<<110, 117, 108, 108>>)
      [] OTHER -> CString(<<>>)

\* JS_NewInt64(ctx, v): an integer value (every token of the model is in
\* the int32 range, where the engine keeps the integer as it is).
JS_NewInt64(v) == JSInt(v)

\* JS_ToInt64(ctx, &out, v): the integer of a number, 0 for null/undefined.
JS_ToInt64(v) == IF v.tag = "int" THEN v.n ELSE 0

(***************************************************************************)
(* Host-side values: Go errors, closures and registry entries.             *)
(***************************************************************************)
GoErr(kind, cause, stack) == [kind |-> kind, Cause |-> cause, Stack |-> stack]
NilErr == GoErr("nil", <<>>, <<>>)
EOF == GoErr("EOF", <<>>, <<>>)

\* type Function func(ctx *Context, this Value, args []Value) Value.
\* The closures of the tests and of the example: one returns a value it
\* builds on ctx, one returns ctx.ThrowError(err).
GoFunc(kind, v, msg) == [kind |-> kind, v |-> v, msg |-> msg]
NilFn == GoFunc("nil", JS_UNDEFINED, <<>>)
RetFn(v) == GoFunc("ret", v, <<>>)
ThrowFn(msg) == GoFunc("throw", JS_UNDEFINED, msg)

\* type funcEntry struct { ctx *Context; fn Function } and its zero value.
funcEntry(c, fn) == [ctx |-> c, fn |-> fn]
ZeroEntry == funcEntry(NoCtx, NilFn)

\* A Go map: an absent key reads as the zero value.
MapGet(m, k) == IF k \in DOMAIN m THEN m[k] ELSE ZeroEntry
MapPut(m, k, v) == [x \in DOMAIN m \cup {k} |-> IF x = k THEN v ELSE m[x]]
MapDelete(m, k) == [x \in DOMAIN m \ {k} |-> m[x]]
EmptyMap == [x \in {} |-> ZeroEntry]

(***************************************************************************)
(* Pure wrapper functions of the binding.                                  *)
(***************************************************************************)
\* func (ctx *Context) String(v string) Value
ContextString(v) == JS_NewString(CString(v))

\* func (ctx *Context) Error(err error) Value: JS_NewError, whose
\* "message" is set to ctx.String(err.Error()).
ContextErrorWithoutMessage(msg) == JSErrorObj(ClassError, <<>>, <<>>)
ContextError(msg) == JSErrorObj(ClassError, ContextString(msg).s, <<>>)

\* func (v Value) String() string
ValueString(v) == GoString(JS_ToCString(v))

\* func (v Value) Error() error
ValueError(v) ==
    IF ~IsError(v) THEN NilErr
    ELSE IF v.stack = <<>> THEN GoErr("Error", ValueString(v), <<>>)
    ELSE GoErr("Error", ValueString(v), GoString(CString(v.stack)))

(***************************************************************************)
(* State of the explicit-Free variant.                                     *)
(***************************************************************************)
VARIABLES
    ctxAlive,      \* ctxAlive[c]: JS_FreeContext(ctx.ref) has not run yet
    exception,     \* exception[c]: the engine's pending-exception slot
    ctxGlobals,    \* ctxGlobals[c]: ctx.globals != nil
    ctxProxy,      \* ctxProxy[c]: ctx.proxy != nil
    globalObj,     \* globalObj[c][name]: the property name of the global object
    funcPtrLen,    \* var funcPtrLen int64
    funcPtrStore,  \* var funcPtrStore map[int64]funcEntry
    fnState,       \* fnState[id]: the function value bound to token id is
                   \*   "held" by the host, "bound" to a global, or "freed"
    exposed,       \* history: what each successful Function call was given
    ret,           \* what the most recent call of the API returned
    panicked       \* a Go panic (nil function call) ended the process

baseVars == <<ctxAlive, exception, ctxGlobals, ctxProxy, globalObj,
              funcPtrLen, funcPtrStore, fnState, exposed, ret, panicked>>

(***************************************************************************)
(* State of the registry as threads run storeFuncPtr, restoreFuncPtr and   *)
(* freeFuncPtr step by step, and of a runtime's queue of pending jobs.     *)
(***************************************************************************)
VARIABLES
    variant,       \* which variant of src/quickjs.go the threads run
    funcPtrLock,   \* var funcPtrLock sync.Mutex: the thread holding it
    heap,          \* the addresses C.malloc has handed out and C.free not taken back
    pc,            \* pc[t]: the statement thread t is about to run
    local,         \* local[t]: the locals of the call thread t is in
    returned,      \* history: the token and entry of every storeFuncPtr that returned
    nStores,       \* history: the number of storeFuncPtr calls begun
    jobQueue,      \* the runtime's pending jobs (rt->job_list)
    jobsScheduled, \* history: the number of jobs ever enqueued
    jobsExecuted,  \* history: the number of jobs run
    jobCalls,      \* history: the number of ExecutePendingJob calls of the loop
    phase          \* where the host is: scheduling, draining, done

regVars == <<variant, funcPtrLock, heap, pc, local, returned, nStores>>
jobVars == <<jobQueue, jobsScheduled, jobsExecuted, jobCalls, phase>>

(***************************************************************************)
(* State of the engine's objects and of the references the wrapper takes   *)
(* and gives back.                                                         *)
(***************************************************************************)
VARIABLES
    events,        \* history: what the most recent call acquired and released,
                   \*   in the order of its statements
    acquired,      \* history: acquired[c]: how often JS_GetGlobalObject and
                   \*   JS_NewCFunction have run for context c
    objs,          \* objs[o]: the properties of the engine object o
    call           \* the most recent conversion or property call: its
                   \*   operation, its arguments and what it returned

resVars == <<events, acquired, objs, call>>

(***************************************************************************)
(* A host program (a test function or the example's main) running to its   *)
(* end: which Values it holds, which calls it has deferred, and how often  *)
(* it has freed its Context and its Runtime.                               *)
(***************************************************************************)
VARIABLES
    prog,          \* the function that runs ("none": no program is followed)
    ppc,           \* the statement it executes next; 0 once it has returned
    owned,         \* the Values it has obtained and neither released nor
                   \*   handed to a Set
    deferred,      \* its deferred calls, most recent first
    freed          \* freed.context, freed.runtime: how often Context.Free
                   \*   and Runtime.Free have run

progVars == <<prog, ppc, owned, deferred, freed>>

(***************************************************************************)
(* The goroutines of TestConcurrency, one per Context, fed through the     *)
(* request channel.                                                        *)
(***************************************************************************)
VARIABLES
    wpc,           \* wpc[c]: where the goroutine that owns context c stands
                   \*   ("none": no goroutine is followed)
    wres,          \* wres[c]: what its most recent Eval returned
    reqCh,         \* the channel req: how many requests it holds, how many
                   \*   were sent in all, and whether it is closed
    resCh          \* the channel res: the results sent so far

workVars == <<wpc, wres, reqCh, resCh>>

\* A host value made into a Value and converted back.
VARIABLES
    conv           \* conv.kind, conv.in: the host type and the value given;
                   \*   conv.out: what came back, once conv.done

\* The function objects Context.Function of the finalizer variant made.
VARIABLES
    fobj           \* fobj[k]: the opaque pointer and closure of the k-th
                   \*   function object, the references the engine counts
                   \*   for it, whether the finalizer set on the host's
                   \*   Value has run, and how often its entry was removed

moreVars == <<progVars, workVars, conv, fobj>>
extVars == <<resVars, moreVars>>
vars == <<baseVars, regVars, jobVars, extVars>>

NumThreads == 2
Threads == 1..NumThreads
NoThread == 0
NilPtr == 0

Local(v, ptr, res, known) == [v |-> v, ptr |-> ptr, res |-> res, known |-> known]
NoLocal == Local(ZeroEntry, NilPtr, ZeroEntry, FALSE)

\* The engine's empty pending-exception slot.
NoException == JS_NULL

(***************************************************************************)
(* Scripts given to Eval, by what the engine does with them.               *)
(***************************************************************************)
Script(kind, name, args, v) == [kind |-> kind, name |-> name, args |-> args, v |-> v]
NoScript == Script("none", "", <<>>, JS_UNDEFINED)
\* A valid script without calls whose completion value is v.
ExprScript(v) == Script("expr", "", <<>>, v)
\* A script that does not parse, as `"bad syntax'`.
SyntaxScript == Script("syntax", "", <<>>, JS_UNDEFINED)
\* `throw v`
ThrowScript(v) == Script("throw", "", <<>>, v)
\* `name(args...)`
CallScript(name, args) == Script("call", name, args, JS_UNDEFINED)

\* What one run of the engine hands back: the result value, the slots
\* after it, the host closures it invoked, and whether the host panicked.
Outcome(val, exc, invoked, panic) ==
    [val |-> val, exc |-> exc, invoked |-> invoked, panic |-> panic]

Invocation(callee, entry, this, args) ==
    [callee |-> callee, fn |-> entry.fn, ctx |-> entry.ctx, this |-> this, args |-> args]

\* JS_Throw(ctx, v): v becomes the pending exception; returns JS_EXCEPTION.
JS_Throw(exc, c, v) == [exc EXCEPT ![c] = v]

\* func (ctx *Context) Throw / ThrowError
ThrowError(exc, c, msg) == JS_Throw(exc, c, ContextError(msg))

\* A call of the closure fn as entry.fn(entry.ctx, this, args).
CallClosure(fn, c, exc) ==
    IF fn.kind = "throw"
    THEN [val |-> JS_EXCEPTION, exc |-> ThrowError(exc, c, fn.msg)]
    ELSE [val |-> fn.v, exc |-> exc]

\* A lookup that answers an unknown token with some registered entry.
restoreFuncPtrAnyEntry(store, ptr) ==
    IF ptr \in DOMAIN store \/ DOMAIN store = {} THEN MapGet(store, ptr)
    ELSE store[CHOOSE k \in DOMAIN store : TRUE]

\* func restoreFuncPtr(ptr int64) funcEntry, run without interruption.
restoreFuncPtr(store, ptr) == MapGet(store, ptr)

\* proxy: args := make([]Value, len(refs)-1); args[i].ref = refs[1+i]
proxyArgsWithToken(refs) == refs
proxyArgs(refs) == [i \in 1..(Len(refs) - 1) |-> refs[i + 1]]

\* proxy: id from refs[0]
proxyId(refs) == JS_ToInt64(refs[1])

\* func proxy(ctx, thisVal, argc, argv) C.JSValue
proxy(callee, thisVal, refs, exc) ==
    LET entry == restoreFuncPtr(funcPtrStore, proxyId(refs))
        args == proxyArgs(refs)
    IN  IF entry.fn.kind = "nil"
        THEN Outcome(JS_EXCEPTION, exc, <<>>, TRUE)
        ELSE LET r == CallClosure(entry.fn, entry.ctx, exc)
             IN  Outcome(r.val, r.exc,
                         <<Invocation(callee, entry, thisVal, args)>>, FALSE)

\* The shim `function() { return proxy.call(this, id, ...arguments); }`
ShimCall(callee, thisVal, args, exc) ==
    proxy(callee, thisVal, <<JSInt(callee.n)>> \o args, exc)

\* JS_Eval(ctx, code, ...) of the engine.  An uncaught throw leaves the
\* thrown value pending and yields JS_EXCEPTION.
JS_Eval(c, script) ==
    CASE script.kind = "expr" ->
            Outcome(script.v, exception, <<>>, FALSE)
      [] script.kind = "syntax" ->
            Outcome(JS_EXCEPTION,
                    JS_Throw(exception, c,
                             JSErrorObj(ClassSyntaxError, <<97>>, EngineStack)),
                    <<>>, FALSE)
      [] script.kind = "throw" ->
            Outcome(JS_EXCEPTION, JS_Throw(exception, c, script.v), <<>>, FALSE)
      [] OTHER ->
            LET callee == globalObj[c][script.name]
            IN  IF callee.tag = "undefined"
                THEN Outcome(JS_EXCEPTION,
                             JS_Throw(exception, c,
                                      JSErrorObj(ClassReferenceError, <<97>>, EngineStack)),
                             <<>>, FALSE)
                ELSE IF callee.tag # "function"
                THEN Outcome(JS_EXCEPTION,
                             JS_Throw(exception, c,
                                      JSErrorObj(ClassTypeError, <<97>>, EngineStack)),
                             <<>>, FALSE)
                ELSE ShimCall(callee, JS_UNDEFINED, script.args, exception)

\* JS_GetException(ctx): hands out the pending exception and empties the slot.
JS_GetException(exc, c) == [val |-> exc[c], exc |-> [exc EXCEPT ![c] = NoException]]

\* func (ctx *Context) Exception() error
ContextException(exc, c) ==
    LET g == JS_GetException(exc, c)
    IN  [err |-> ValueError(g.val), exc |-> g.exc]

\* func (ctx *Context) EvalFile: what it returns for the engine's outcome r.
EvalFileNoException(c, r) == [val |-> r.val, err |-> NilErr, exc |-> r.exc]
\* An EvalFile that hands back undefined in place of the exception marker.
EvalFileUndefinedValue(c, r) ==
    IF IsException(r.val)
    THEN LET e == ContextException(r.exc, c)
         IN  [val |-> JS_UNDEFINED, err |-> e.err, exc |-> e.exc]
    ELSE [val |-> r.val, err |-> NilErr, exc |-> r.exc]
EvalFile(c, r) ==
    IF IsException(r.val)
    THEN LET e == ContextException(r.exc, c)
         IN  [val |-> r.val, err |-> e.err, exc |-> e.exc]
    ELSE [val |-> r.val, err |-> NilErr, exc |-> r.exc]

(***************************************************************************)
(* Engine objects and their properties.  An object keeps its string-keyed  *)
(* properties in props and, when it is an array, its indexed elements in   *)
(* elems and its "length" in length.                                       *)
(***************************************************************************)
MaxIndex == 2

StrLength == <<108, 101, 110, 103, 116, 104>>
StrMinusOne == <<45, 49>>

\* The objects of the scenarios: `test := context.Object()` and
\* `test := context.Array()`.
Objs == {"object", "array"}
JSObject(class, props, elems, length) ==
    [class |-> class, props |-> props, elems |-> elems, length |-> length]
NoProps == [k \in {} |-> JS_UNDEFINED]
\* func (ctx *Context) Object() / Array(): a fresh object without
\* properties, a fresh array of length 0.
ContextObject == JSObject("object", NoProps, NoProps, 0)
ContextArray == JSObject("array", NoProps, NoProps, 0)

\* A store that forgets every other property.
PropPutAlone(m, k, v) == [x \in {k} |-> v]
PropPut(m, k, v) == [x \in DOMAIN m \cup {k} |-> IF x = k THEN v ELSE m[x]]
PropGet(m, k) == IF k \in DOMAIN m THEN m[k] ELSE JS_UNDEFINED

\* Assigning n to the "length" of an array: a number that is an array
\* length cuts the array to n elements; anything else raises a RangeError
\* and leaves the array as it is.
SetArrayLength(obj, val) ==
    IF val.tag = "int" /\ val.n >= 0
    THEN [obj EXCEPT !.length = val.n,
                     !.elems = [i \in {j \in DOMAIN obj.elems : j < val.n} |-> obj.elems[i]]]
    ELSE obj

\* JS_SetPropertyStr(ctx, this, prop, val): prop is a C string, read up to
\* its NUL.
JS_SetPropertyStr(obj, prop, val) ==
    IF obj.class = "array" /\ GoString(prop) = StrLength
    THEN SetArrayLength(obj, val)
    ELSE [obj EXCEPT !.props = PropPut(obj.props, GoString(prop), val)]

\* JS_GetPropertyStr(ctx, this, prop); an array answers "length" itself.
JS_GetPropertyStr(obj, prop) ==
    IF obj.class = "array" /\ GoString(prop) = StrLength
    THEN JSInt(obj.length)
    ELSE PropGet(obj.props, GoString(prop))

\* JS_SetPropertyInt64(ctx, this, idx, val): an array index sets the
\* element and grows "length" to cover it; any other number is an
\* ordinary property named by its decimal form.
JS_SetPropertyInt64(obj, idx, val) ==
    IF idx >= 0
    THEN [obj EXCEPT !.elems = PropPut(obj.elems, idx, val),
                     !.length = IF idx + 1 > obj.length THEN idx + 1 ELSE obj.length]
    ELSE [obj EXCEPT !.props = PropPut(obj.props, StrMinusOne, val)]

\* JS_GetPropertyUint32(ctx, this, idx)
JS_GetPropertyUint32(obj, idx) == PropGet(obj.elems, idx)

\* func (v Value) Set(name string, val Value)
ValueSet(obj, name, val) == JS_SetPropertyStr(obj, CString(name), val)
\* func (v Value) Get(name string) Value
ValueGet(obj, name) == JS_GetPropertyStr(obj, CString(name))
\* func (v Value) SetByInt64(idx int64, val Value)
ValueSetByInt64(obj, idx, val) == JS_SetPropertyInt64(obj, idx, val)
\* func (v Value) GetByUint32(idx uint32) Value
ValueGetByUint32(obj, idx) == JS_GetPropertyUint32(obj, idx)
\* func (v Value) Int64() int64
ValueInt64(v) == JS_ToInt64(v)
\* A Len that counts the elements.
ValueLenCount(obj) == Cardinality(DOMAIN obj.elems)
\* func (v Value) Len() int64 { return v.Get("length").Int64() }
ValueLen(obj) == ValueInt64(ValueGet(obj, StrLength))

(***************************************************************************)
(* The references a call of the wrapper takes (acquire) and gives back     *)
(* (release), in the order of its statements.                              *)
(***************************************************************************)
Event(kind, name, i) == [kind |-> kind, name |-> name, i |-> i]
Acquire(name) == Event("acquire", name, 0)
Release(name) == Event("release", name, 0)
AcquireAt(name, i) == Event("acquire", name, i)
ReleaseAt(name, i) == Event("release", name, i)

\* Value.Error: stack := v.Get("stack"); defer stack.Free(), after the
\* early return for a value that is not an Error object.
ValueErrorEvents(v) ==
    IF ~IsError(v) THEN <<>> ELSE <<Acquire("stack"), Release("stack")>>

\* Context.Exception: val := JS_GetException; defer val.Free();
\* return val.Error()
ContextExceptionEvents(exc, c) ==
    <<Acquire("exception")>> \o ValueErrorEvents(JS_GetException(exc, c).val)
        \o <<Release("exception")>>

\* Context.EvalFile: the result is the caller's; a failure runs
\* ctx.Exception().
EvalFileEvents(c, r) ==
    IF IsException(r.val) THEN ContextExceptionEvents(r.exc, c)
    ELSE <<Acquire("result")>>

\* A Context.Function that makes a new trampoline value on every call.
ContextFunctionEventsNewProxy(c, shimOk) ==
    IF ~shimOk THEN <<>>
    ELSE <<Acquire("shim"), Acquire("proxy"), Acquire("function"), Release("shim")>>

\* Context.Function: the shim val is released by the deferred val.Free()
\* once JS_Call has made the function value; ctx.proxy is made when nil.
ContextFunctionEvents(c, shimOk) ==
    IF ~shimOk THEN <<>>
    ELSE <<Acquire("shim")>>
            \o (IF ctxProxy[c] THEN <<>> ELSE <<Acquire("proxy")>>)
            \o <<Acquire("function"), Release("shim")>>

\* Value.Len: v.Get("length") is converted by Int64() and dropped.
ValueLenEvents == <<Acquire("length")>>

\* Value.PropertyNames over n own properties: JS_GetOwnPropertyNames
\* fills the array with one atom per property; each names[i].Atom.Free()
\* gives its atom back and the deferred js_free the array.  failed: the
\* engine answered a negative result and nothing was taken.
PropertyNamesEvents(n, failed) ==
    IF failed THEN <<>>
    ELSE <<Acquire("atoms")>>
            \o [i \in 1..n |-> AcquireAt("atom", i)]
            \o [i \in 1..n |-> ReleaseAt("atom", i)]
            \o <<Release("atoms")>>

\* A Context.Free that releases both caches whether or not they were made.
ContextFreeEventsUnconditional(c) ==
    <<Release("proxy"), Release("globals"), Release("context")>>

\* Context.Free: ctx.proxy.Free() and ctx.globals.Free() when set, then
\* JS_FreeContext.
ContextFreeEvents(c) ==
    (IF ctxProxy[c] THEN <<Release("proxy")>> ELSE <<>>)
        \o (IF ctxGlobals[c] THEN <<Release("globals")>> ELSE <<>>)
        \o <<Release("context")>>

\* A Globals that takes a reference on every call in both variants.
ContextGlobalsEventsAlways(c) == <<Acquire("globals")>>

\* Context.Globals.  Explicit-Free variant: JS_GetGlobalObject when
\* ctx.globals is nil.  Finalizer variant: JS_GetGlobalObject on every call,
\* the Context has no globals field.
ContextGlobalsEvents(c) ==
    IF variant = "finalizer" THEN <<Acquire("globals")>>
    ELSE IF ctxGlobals[c] THEN <<>> ELSE <<Acquire("globals")>>

Counts(g, p) == [globals |-> g, proxy |-> p]
Count(ev, kind, name) ==
    Cardinality({i \in 1..Len(ev) : ev[i].kind = kind /\ ev[i].name = name})
\* acquired[c] after a call on c with the events ev.
Counted(acq, c, ev) ==
    [acq EXCEPT ![c] = Counts(acq[c].globals + Count(ev, "acquire", "globals"),
                              acq[c].proxy + Count(ev, "acquire", "proxy"))]

CallRec(op, obj, name, idx, val, res, before) ==
    [op |-> op, obj |-> obj, name |-> name, idx |-> idx, val |-> val, res |-> res,
     before |-> before]
NoCall == CallRec("none", "object", <<>>, 0, JS_UNDEFINED, JS_UNDEFINED, ContextObject)

Ret(op, c, script, val, err, invoked, prevFailed) ==
    [op |-> op, ctx |-> c, script |-> script, val |-> val, err |-> err,
     invoked |-> invoked, prevFailed |-> prevFailed]
NoRet == Ret("none", NoCtx, NoScript, JS_UNDEFINED, NilErr, <<>>, FALSE)

\* The previous call was an Eval on c whose evaluation failed.
EvalJustFailed(c) == ret.op = "Eval" /\ ret.ctx = c /\ IsException(ret.val)

\* func (ctx *Context) Eval(code string) (Value, error)
EvalCall(c, script) ==
    /\ ~panicked
    /\ ctxAlive[c]
    /\ LET r == JS_Eval(c, script)
           e == EvalFile(c, r)
       IN  IF r.panic
           THEN /\ panicked' = TRUE
                /\ UNCHANGED <<exception, ret>>
           ELSE /\ exception' = e.exc
                /\ ret' = Ret("Eval", c, script, e.val, e.err, r.invoked,
                              EvalJustFailed(c))
                /\ UNCHANGED panicked
    /\ UNCHANGED <<ctxAlive, ctxGlobals, ctxProxy, globalObj, funcPtrLen,
                   funcPtrStore, fnState, exposed>>
    /\ events' = EvalFileEvents(c, JS_Eval(c, script))
    /\ UNCHANGED <<regVars, jobVars, acquired, objs, call>>

\* The same call made by the host thread of a scenario.
Eval(c, script) == EvalCall(c, script) /\ UNCHANGED moreVars

(***************************************************************************)
(* Exposing closures: storeFuncPtr and Context.Function.                   *)
(***************************************************************************)
\* atomic.AddInt64(&funcPtrLen, 1): the new value of the counter.
AddInt64NoIncrement(len) == len
AddInt64(len) == len + 1

\* id := atomic.AddInt64(&funcPtrLen, 1) - 1
storeFuncPtrIdZero(len) == 0
storeFuncPtrId(len) == AddInt64(len) - 1

\* func storeFuncPtr(v funcEntry) int64, run without interruption.
storeFuncPtr(len, store, v) ==
    [id |-> storeFuncPtrId(len),
     len |-> AddInt64(len),
     store |-> MapPut(store, storeFuncPtrId(len), v)]

\* The exception the engine leaves when it cannot build the shim
\* (out of memory, stack overflow).
ShimFailure == JSErrorObj(ClassInternalError, <<97>>, EngineStack)

\* A Context.Function that takes its token before it looks at the shim.
ContextFunctionStoresFirst(c, fn, shimOk) ==
    LET s == storeFuncPtr(funcPtrLen, funcPtrStore, funcEntry(c, fn))
    IN  [val |-> IF shimOk THEN JSFunc(JS_NewInt64(s.id)) ELSE JS_EXCEPTION,
         exc |-> IF shimOk THEN exception ELSE JS_Throw(exception, c, ShimFailure),
         len |-> s.len, store |-> s.store,
         proxy |-> IF shimOk THEN [ctxProxy EXCEPT ![c] = TRUE] ELSE ctxProxy]

\* func (ctx *Context) Function(fn Function) Value.  shimOk: whether the
\* engine evaluated the shim source; when it did not, val.IsException()
\* and Function returns val at once.
ContextFunction(c, fn, shimOk) ==
    IF ~shimOk
    THEN [val |-> JS_EXCEPTION,
          exc |-> JS_Throw(exception, c, ShimFailure),
          len |-> funcPtrLen, store |-> funcPtrStore, proxy |-> ctxProxy]
    ELSE LET s == storeFuncPtr(funcPtrLen, funcPtrStore, funcEntry(c, fn))
             funcPtrVal == JS_NewInt64(s.id)
         IN  [val |-> JSFunc(funcPtrVal),
              exc |-> exception,
              len |-> s.len, store |-> s.store,
              proxy |-> [ctxProxy EXCEPT ![c] = TRUE]]

Exposure(val, c, fn) == [val |-> val, ctx |-> c, fn |-> fn]

SetState(st, id, s) == [x \in DOMAIN st \cup {id} |-> IF x = id THEN s ELSE st[x]]

\* ctx.Function(fn), the host keeping the returned Value.
Function(c, fn, shimOk) ==
    /\ ~panicked
    /\ ctxAlive[c]
    /\ funcPtrLen < MaxFuncs
    /\ LET f == ContextFunction(c, fn, shimOk)
       IN  /\ exception' = f.exc
           /\ funcPtrLen' = f.len
           /\ funcPtrStore' = f.store
           /\ ctxProxy' = f.proxy
           /\ ret' = Ret("Function", c, NoScript, f.val, NilErr, <<>>, FALSE)
           /\ IF IsException(f.val)
              THEN UNCHANGED <<fnState, exposed>>
              ELSE /\ fnState' = SetState(fnState, f.val.n, "held")
                   /\ exposed' = exposed \cup {Exposure(f.val, c, fn)}
    /\ UNCHANGED <<ctxAlive, ctxGlobals, globalObj, panicked>>
    /\ events' = ContextFunctionEvents(c, shimOk)
    /\ acquired' = Counted(acquired, c, events')
    /\ UNCHANGED <<regVars, jobVars, moreVars, objs, call>>

\* JS_SetPropertyStr on the global object: the property's old value is
\* released, the new one is owned by the object.
Released(st, old) ==
    IF old.tag = "function" /\ old.n \in DOMAIN st
    THEN SetState(st, old.n, "freed")
    ELSE st

\* context.Globals().SetFunction(name, fn):
\*   v.Set(name, v.ctx.Function(fn))
SetFunctionCall(c, name, fn, shimOk) ==
    /\ ~panicked
    /\ ctxAlive[c]
    /\ funcPtrLen < MaxFuncs
    /\ LET f == ContextFunction(c, fn, shimOk)
           old == globalObj[c][name]
       IN  /\ exception' = f.exc
           /\ funcPtrLen' = f.len
           /\ funcPtrStore' = f.store
           /\ ctxProxy' = f.proxy
           /\ globalObj' = [globalObj EXCEPT ![c][name] = f.val]
           /\ ret' = Ret("SetFunction", c, NoScript, f.val, NilErr, <<>>, FALSE)
           /\ IF IsException(f.val)
              THEN /\ fnState' = Released(fnState, old)
                   /\ UNCHANGED exposed
              ELSE /\ fnState' = SetState(Released(fnState, old), f.val.n, "bound")
                   /\ exposed' = exposed \cup {Exposure(f.val, c, fn)}
    /\ ctxGlobals' = [ctxGlobals EXCEPT ![c] = TRUE]
    /\ UNCHANGED <<ctxAlive, panicked>>
    /\ events' = ContextGlobalsEvents(c) \o ContextFunctionEvents(c, shimOk)
    /\ acquired' = Counted(acquired, c, events')
    /\ UNCHANGED <<regVars, jobVars, objs, call>>

SetFunction(c, name, fn, shimOk) ==
    SetFunctionCall(c, name, fn, shimOk) /\ UNCHANGED moreVars

\* How many references to one global object the model lets the host take.
MaxCalls == 2

\* The global object of context c.
GlobalObject(c) == JSVal("object", c, <<>>, <<>>)

\* func (ctx *Context) Globals() Value
Globals(c) ==
    /\ ~panicked
    /\ ctxAlive[c]
    /\ acquired[c].globals < MaxCalls
    /\ ctxGlobals' = [ctxGlobals EXCEPT ![c] = (variant = "explicit")]
    /\ ret' = Ret("Globals", c, NoScript, GlobalObject(c), NilErr, <<>>, FALSE)
    /\ UNCHANGED <<ctxAlive, exception, ctxProxy, globalObj, funcPtrLen,
                   funcPtrStore, fnState, exposed, panicked>>
    /\ events' = ContextGlobalsEvents(c)
    /\ acquired' = Counted(acquired, c, events')
    /\ UNCHANGED <<regVars, jobVars, moreVars, objs, call>>

ExposedCtx(id) == (CHOOSE x \in exposed : x.val.n = id).ctx

\* func (v Value) Free(), of a function Value the host holds.
ValueFree(id) ==
    /\ ~panicked
    /\ id \in DOMAIN fnState
    /\ fnState[id] = "held"
    /\ ctxAlive[ExposedCtx(id)]
    /\ fnState' = SetState(fnState, id, "freed")
    /\ ret' = Ret("Free", ExposedCtx(id), NoScript, JS_UNDEFINED, NilErr, <<>>, FALSE)
    /\ UNCHANGED <<ctxAlive, exception, ctxGlobals, ctxProxy, globalObj,
                   funcPtrLen, funcPtrStore, exposed, panicked>>
    /\ UNCHANGED <<regVars, jobVars, extVars>>

\* func (ctx *Context) Free(): releases ctx.proxy and ctx.globals when set,
\* then JS_FreeContext, which destroys the global object and with it the
\* functions bound to it.  The host has released its own Values before.
ContextFreeCall(c) ==
    /\ ~panicked
    /\ ctxAlive[c]
    /\ \A x \in exposed : x.ctx = c => fnState[x.val.n] # "held"
    /\ ctxAlive' = [ctxAlive EXCEPT ![c] = FALSE]
    /\ globalObj' = [globalObj EXCEPT ![c] = [n \in Names |-> JS_UNDEFINED]]
    /\ exception' = [exception EXCEPT ![c] = NoException]
    /\ fnState' = [id \in DOMAIN fnState |->
                     IF \E x \in exposed : x.ctx = c /\ x.val.n = id
                     THEN "freed" ELSE fnState[id]]
    /\ ret' = Ret("ContextFree", c, NoScript, JS_UNDEFINED, NilErr, <<>>, FALSE)
    /\ UNCHANGED <<ctxGlobals, ctxProxy, funcPtrLen, funcPtrStore, exposed, panicked>>
    /\ events' = ContextFreeEvents(c)
    /\ UNCHANGED <<regVars, jobVars, acquired, objs, call>>

ContextFree(c) == ContextFreeCall(c) /\ UNCHANGED moreVars

(***************************************************************************)
(* Inputs: the scripts and closures of the tests and of the example.       *)
(***************************************************************************)
RECURSIVE SeqsUpTo(_, _)
SeqsUpTo(S, n) ==
    IF n = 0 THEN {<<>>}
    ELSE SeqsUpTo(S, n - 1) \cup
         {Append(s, x) : s \in {q \in SeqsUpTo(S, n - 1) : Len(q) = n - 1}, x \in S}

\* `throw new Error("a")`
ScriptError == JSErrorObj(ClassError, <<97>>, EngineStack)

BaseInit ==
    /\ ctxAlive = [c \in Contexts |-> TRUE]
    /\ exception = [c \in Contexts |-> NoException]
    /\ ctxGlobals = [c \in Contexts |-> FALSE]
    /\ ctxProxy = [c \in Contexts |-> FALSE]
    /\ globalObj = [c \in Contexts |-> [n \in Names |-> JS_UNDEFINED]]
    /\ funcPtrLen = 0
    /\ funcPtrStore = EmptyMap
    /\ fnState = [x \in {} |-> "freed"]
    /\ exposed = {}
    /\ ret = NoRet
    /\ panicked = FALSE

RegInit ==
    /\ funcPtrLock = NoThread
    /\ heap = {}
    /\ pc = [t \in Threads |-> "idle"]
    /\ local = [t \in Threads |-> NoLocal]
    /\ returned = {}
    /\ nStores = 0

(***************************************************************************)
(* The test functions of the explicit-Free variant and the example         *)
(* program, as the statements that take, hand over and release Values,     *)
(* free the Context and free the Runtime.  A Value is named by the line    *)
(* of src/examples/main.go that obtains it; counted says whether it holds a*)
(* reference (strings, objects, functions, big numbers), which numbers,    *)
(* booleans and the exception marker do not.                               *)
(***************************************************************************)
Stmt(op, v, counted, to) == [op |-> op, v |-> v, counted |-> counted, to |-> to]
POther == Stmt("other", "", FALSE, 0)
PAcquire(v, counted) == Stmt("acquire", v, counted, 0)
PConsume(v) == Stmt("consume", v, FALSE, 0)
PFree(v) == Stmt("free", v, FALSE, 0)
PDeferFree(v) == Stmt("defer", v, FALSE, 0)
PDeferContextFree == Stmt("defer", "context", FALSE, 0)
PDeferRuntimeFree == Stmt("defer", "runtime", FALSE, 0)
\* A condition the statements do not decide: go to statement `to`, or on.
PBranch(to) == Stmt("branch", "", FALSE, to)
PJump(to) == Stmt("jump", "", FALSE, to)
PReturn == Stmt("return", "", FALSE, 0)

\* runtime := NewRuntime(); defer runtime.Free();
\* context := runtime.NewContext(); defer context.Free()
PSetup == <<POther, PDeferRuntimeFree, POther, PDeferContextFree>>

\* func main() of the example
ProgMain ==
    PSetup \o
    <<POther,                                   \* 5: globals := context.Globals()
      PAcquire("result33", TRUE), POther,       \* 6: template string
      PAcquire("result41", FALSE), POther,      \* 8: number
      PAcquire("result49", TRUE), POther,       \* 10: big integer
      PAcquire("result57", TRUE), POther,       \* 12: big decimal
      PAcquire("result65", FALSE), POther,      \* 14: boolean
      PAcquire("func73", TRUE), PConsume("func73"),
      PAcquire("func78", TRUE), PConsume("func78"),
      PAcquire("result83", FALSE),              \* 20
      PAcquire("result90", FALSE),              \* 21
      POther,                                   \* 22: globals.PropertyNames()
      PBranch(26),                              \* 23: for _, name := range names
      PAcquire("val98", TRUE),                  \* 24: globals.GetByAtom(name.Atom)
      PJump(23),                                \* 25
      PBranch(36),                              \* 26: if flag.NArg() == 0 { return }
      PAcquire("result110", TRUE),              \* 27
      PBranch(36),                              \* 28: check(err) panics
      PBranch(34),                              \* 29: if result.IsObject() ... else
      POther,                                   \* 30: result.PropertyNames()
      PBranch(36),                              \* 31: for _, name := range names
      PAcquire("val119", TRUE),                 \* 32
      PJump(31),                                \* 33
      POther,                                   \* 34: fmt.Println(result.String())
      POther,                                   \* 35
      PReturn>>                                 \* 36

\* func TestObject
ProgTestObject ==
    PSetup \o
    <<PAcquire("test145", TRUE),
      PAcquire("string146", TRUE), PConsume("string146"),
      PAcquire("string147", TRUE), PConsume("string147"),
      PAcquire("string148", TRUE), PConsume("string148"),
      PConsume("test145"),
      PAcquire("result151", TRUE), PDeferFree("result151"),
      POther, PReturn>>

\* One round of `test.SetByInt64(i, context.String(...))`.
PArrayStore == <<PAcquire("string167", TRUE), PConsume("string167")>>
\* One round of `i < test.Len()`, `test.GetByUint32(uint32(i)).String()`.
PArrayLoad == <<PAcquire("length169", FALSE), PAcquire("elem170", TRUE), POther>>

\* func TestArray
ProgTestArray ==
    PSetup \o
    <<PAcquire("test165", TRUE)>>
    \o PArrayStore \o PArrayStore \o PArrayStore
    \o PArrayLoad \o PArrayLoad \o PArrayLoad
    \o <<PAcquire("length169", FALSE),
         PConsume("test165"),
         PAcquire("result175", TRUE), PDeferFree("result175"),
         POther, PReturn>>

\* func TestBadSyntax
ProgTestBadSyntax ==
    PSetup \o <<PAcquire("result189", FALSE), POther, PReturn>>

\* func TestFunctionThrowError
ProgTestFunctionThrowError ==
    PSetup \o
    <<PAcquire("func202", TRUE), PConsume("func202"),
      PAcquire("result206", FALSE), POther, POther, PReturn>>

\* func TestFunction
ProgTestFunction ==
    PSetup \o
    <<PAcquire("func221", TRUE), PConsume("func221"),
      PAcquire("func233", TRUE), PConsume("func233"),
      PAcquire("result241", TRUE), PDeferFree("result241"), POther,
      PAcquire("result248", FALSE), PDeferFree("result248"), POther,
      PReturn>>

\* One goroutine of func TestConcurrency
ProgTestConcurrency ==
    <<POther>> \o PSetup \o
    <<PBranch(11),                              \* 6: for range req
      PAcquire("result278", FALSE),             \* 7
      POther,                                   \* 8: res <- result.Int64()
      PFree("result278"),                       \* 9
      PJump(6),                                 \* 10
      PReturn>>                                 \* 11

ProgramNames ==
    {"main", "TestObject", "TestArray", "TestBadSyntax", "TestFunctionThrowError",
     "TestFunction", "TestConcurrency"}

Program(p) ==
    CASE p = "main" -> ProgMain
      [] p = "TestObject" -> ProgTestObject
      [] p = "TestArray" -> ProgTestArray
      [] p = "TestBadSyntax" -> ProgTestBadSyntax
      [] p = "TestFunctionThrowError" -> ProgTestFunctionThrowError
      [] p = "TestFunction" -> ProgTestFunction
      [] p = "TestConcurrency" -> ProgTestConcurrency
      [] OTHER -> <<PReturn>>

\* The program p about to execute its first statement.
ProgInit(p) ==
    /\ prog = p
    /\ ppc = 1
    /\ owned = {}
    /\ deferred = <<>>
    /\ freed = [context |-> 0, runtime |-> 0]

\* req := make(chan struct{}, n); res := make(chan int64, m); every
\* goroutine at position at.
Chan(len, sent, closed) == [len |-> len, sent |-> sent, closed |-> closed]
NoResult == [val |-> JS_UNDEFINED, err |-> NilErr]
WorkInit(at) ==
    /\ wpc = [c \in Contexts |-> at]
    /\ wres = [c \in Contexts |-> NoResult]
    /\ reqCh = Chan(0, 0, FALSE)
    /\ resCh = <<>>

Conv(kind, in, out, done) == [kind |-> kind, in |-> in, out |-> out, done |-> done]
NoConv == Conv("none", "none", "none", FALSE)

MoreInit == ProgInit("none") /\ WorkInit("none") /\ conv = NoConv /\ fobj = <<>>

ResInit ==
    /\ events = <<>>
    /\ acquired = [c \in Contexts |-> Counts(0, 0)]
    /\ objs = [o \in Objs |-> IF o = "array" THEN ContextArray ELSE ContextObject]
    /\ call = NoCall

JobInit ==
    /\ jobQueue = <<>>
    /\ jobsScheduled = 0
    /\ jobsExecuted = 0
    /\ jobCalls = 0
    /\ phase = "schedule"

\* The state after construction: contexts created, nothing exposed, no
\* thread inside the registry, no job pending.
Init ==
    /\ BaseInit
    /\ RegInit
    /\ variant = "explicit"
    /\ JobInit
    /\ ResInit
    /\ MoreInit

\* func (ctx *Context) ThrowError(err error) Value, called by the host
\* outside any closure: the Error object becomes the pending exception.
ContextThrowError(c, msg) ==
    /\ ~panicked
    /\ ctxAlive[c]
    /\ exception' = ThrowError(exception, c, msg)
    /\ ret' = Ret("ThrowError", c, NoScript, JS_EXCEPTION, NilErr, <<>>, FALSE)
    /\ UNCHANGED <<ctxAlive, ctxGlobals, ctxProxy, globalObj, funcPtrLen, funcPtrStore,
                   fnState, exposed, panicked, regVars, jobVars, extVars>>

(***************************************************************************)
(* Spec: evaluation and its errors (TestBadSyntax, TestFunctionThrowError, *)
(* the example's Eval calls), on one context.                              *)
(***************************************************************************)
\* The context the host thread of this scenario works on.
EvalCtx == 1
EvalScripts ==
    {ExprScript(JSInt(1)), SyntaxScript, ThrowScript(JSInt(1)),
     ThrowScript(ScriptError)} \cup {CallScript(n, <<>>) : n \in Names}
EvalClosures == {RetFn(JS_NULL), ThrowFn(<<97>>)}

Next ==
    \/ \E s \in EvalScripts : Eval(EvalCtx, s)
    \/ \E n \in Names, fn \in EvalClosures, ok \in BOOLEAN :
          SetFunction(EvalCtx, n, fn, ok)
    \/ ContextThrowError(EvalCtx, <<97>>)

Spec == Init /\ [][Next]_vars

\* C1 (as stated): after any Eval call returns, whether it succeeded or
\* failed, the context has no pending exception.
C1_NoPendingAfterAnyEval ==
    ret.op = "Eval" => exception[ret.ctx] = NoException

\* C1 (amended): after an Eval whose evaluation failed returns, the context
\* has no pending exception; and a valid script evaluated right after a
\* failing Eval on the same context succeeds.
C1_FailingEvalClearsException ==
    /\ (ret.op = "Eval" /\ IsException(ret.val)
            => exception[ret.ctx] = NoException)
    /\ (ret.op = "Eval" /\ ret.prevFailed /\ ret.script.kind = "expr"
            => ret.err = NilErr /\ ret.val = ret.script.v)

\* A valid script has been evaluated right after a failing Eval.
C1_Witness ==
    /\ ret.op = "Eval"
    /\ ret.prevFailed
    /\ ret.script.kind = "expr"
    /\ ret.err = NilErr

\* C2: whenever the evaluation performed by Eval fails, Eval returns a
\* non-nil error; it never returns an exception-marked Value with a nil error.
C2_FailedEvalReturnsError ==
    ret.op = "Eval" /\ IsException(ret.val) => ret.err # NilErr

(***************************************************************************)
(* ThrowSpec: TestFunctionThrowError for every message err may carry.      *)
(***************************************************************************)
ThrowNext ==
    \/ \E msg \in ByteStrings(MaxLen) :
          SetFunction(EvalCtx, "A", ThrowFn(msg), TRUE)
    \/ Eval(EvalCtx, CallScript("A", <<>>))

ThrowSpec == Init /\ [][ThrowNext]_vars

\* C3: if the closure exposed as A returns ctx.ThrowError(err), Eval("A()")
\* fails with a non-nil Error whose Cause is "Error: " followed by err's
\* message, for every message.
C3_CauseIsErrorColonMessage ==
    (/\ ret.op = "Eval"
     /\ Len(ret.invoked) = 1
     /\ ret.invoked[1].fn.kind = "throw")
        => /\ ret.err.kind = "Error"
           /\ ret.err.Cause = StrError \o StrColonSpace \o ret.invoked[1].fn.msg

\* C3 (amended): Eval("A()") fails with a non-nil Error whose Cause is the
\* string form of an Error object carrying err's message up to its first
\* zero byte: "Error: " followed by that prefix when it is non-empty, and
\* "Error" alone when it is empty.
C3_CauseIsErrorStringForm ==
    (/\ ret.op = "Eval"
     /\ Len(ret.invoked) = 1
     /\ ret.invoked[1].fn.kind = "throw")
        => LET msg == ret.invoked[1].fn.msg
           IN  /\ ret.err.kind = "Error"
               /\ IsException(ret.val)
               /\ \E k \in 0..Len(msg) :
                     /\ \A i \in 1..k : msg[i] # NUL
                     /\ k = Len(msg) \/ msg[k + 1] = NUL
                     /\ ret.err.Cause =
                           IF k = 0 THEN StrError
                           ELSE StrError \o StrColonSpace \o SubSeq(msg, 1, k)

\* Eval("A()") has failed with the Cause "Error: " and a message of MaxLen
\* bytes thrown by the closure.
C3_Witness ==
    /\ ret.op = "Eval"
    /\ Len(ret.invoked) = 1
    /\ ret.invoked[1].fn.kind = "throw"
    /\ Len(ret.invoked[1].fn.msg) = MaxLen
    /\ ret.err.Cause = StrError \o StrColonSpace \o ret.invoked[1].fn.msg

(***************************************************************************)
(* ArgsSpec: TestFunction, a script calling A with N arguments.            *)
(***************************************************************************)
ArgValues == {JSStr(<<97>>), JSInt(1), JS_NULL}
ArgsClosures == {RetFn(JSStr(<<97>>)), RetFn(JSInt(256))}

ArgsNext ==
    \/ \E fn \in ArgsClosures : SetFunction(EvalCtx, "A", fn, TRUE)
    \/ \E a \in SeqsUpTo(ArgValues, MaxArgs) : Eval(EvalCtx, CallScript("A", a))

ArgsSpec == Init /\ [][ArgsNext]_vars

\* The script of the last Eval called a function exposed by the host.
CalledExposed ==
    /\ ret.op = "Eval"
    /\ ret.script.kind = "call"
    /\ globalObj[ret.ctx][ret.script.name].tag = "function"

\* C4: a script call with N arguments hands the closure exactly those N
\* arguments in order, without the leading token, and the closure's result
\* is what the script call returns.
C4_ArgumentFidelity ==
    CalledExposed =>
        /\ Len(ret.invoked) = 1
        /\ Len(ret.invoked[1].args) = Len(ret.script.args)
        /\ \A i \in 1..Len(ret.script.args) :
              ret.invoked[1].args[i] = ret.script.args[i]
        /\ ret.val = ret.invoked[1].fn.v
        /\ ret.err = NilErr

\* A script has called an exposed function with MaxArgs arguments.
C4_Witness ==
    /\ CalledExposed
    /\ Len(ret.script.args) = MaxArgs
    /\ Len(ret.invoked) = 1
    /\ Len(ret.invoked[1].args) = MaxArgs

(***************************************************************************)
(* CallSpec: closures exposed on several contexts under several names,     *)
(* and scripts calling them (the example's A and B).                       *)
(***************************************************************************)
CallClosures == {RetFn(JSStr(<<65>>)), RetFn(JSStr(<<66>>))}

CallNext ==
    \/ \E c \in Contexts, n \in Names, fn \in CallClosures :
          SetFunction(c, n, fn, TRUE)
    \/ \E c \in Contexts, n \in Names : Eval(c, CallScript(n, <<>>))

CallSpec == Init /\ [][CallNext]_vars

\* C5: each script call of an exposed function invokes exactly once the
\* closure given to the Function call that produced the function, and
\* passes it the Context it was registered on.
C5_CallsItsOwnClosure ==
    CalledExposed =>
        /\ Len(ret.invoked) = 1
        /\ ret.invoked[1].callee = globalObj[ret.ctx][ret.script.name]
        /\ \E x \in exposed : x.val = ret.invoked[1].callee
        /\ \A x \in exposed :
              x.val = ret.invoked[1].callee
                  => /\ x.fn = ret.invoked[1].fn
                     /\ x.ctx = ret.invoked[1].ctx
                     /\ x.ctx = ret.ctx

\* With several closures exposed, on more than one context, a script has
\* called one of them.
C5_Witness ==
    /\ CalledExposed
    /\ Len(ret.invoked) = 1
    /\ Cardinality(exposed) = MaxFuncs
    /\ \E x, y \in exposed : x.ctx # y.ctx /\ x.fn # y.fn

(***************************************************************************)
(* FreeSpec: exposing functions, releasing them and freeing contexts.      *)
(***************************************************************************)
FreeNext ==
    \/ \E c \in Contexts : Function(c, RetFn(JS_NULL), TRUE)
    \/ \E c \in Contexts, n \in Names : SetFunction(c, n, RetFn(JS_NULL), TRUE)
    \/ \E c \in Contexts : Globals(c)
    \/ \E id \in 0..(MaxFuncs - 1) : ValueFree(id)
    \/ \E c \in Contexts : ContextFree(c)

FreeSpec == Init /\ [][FreeNext]_vars

\* The positions in the event sequence ev at which name is released.
ReleasesOf(ev, name) == {i \in 1..Len(ev) : ev[i] = Release(name)}

\* C13: Context.Free releases the cached trampoline and the cached globals
\* reference, each exactly once when it was created and not at all when it
\* was not, and releases the context once, after both.
C13_CachesReleasedBeforeContext ==
    ret.op = "ContextFree" =>
        LET c == ret.ctx
            ctxAt == ReleasesOf(events, "context")
        IN  /\ Cardinality(ctxAt) = 1
            /\ \A name \in {"proxy", "globals"} :
                  /\ Cardinality(ReleasesOf(events, name))
                        = (IF acquired[c][name] > 0 THEN 1 ELSE 0)
                  /\ \A i \in ReleasesOf(events, name) : \A j \in ctxAt : i < j
            /\ \A i \in 1..Len(events) : events[i].kind = "release"

C13_Witness ==
    /\ ret.op = "ContextFree"
    /\ acquired[ret.ctx].proxy = 1
    /\ acquired[ret.ctx].globals = 1
    /\ events = <<Release("proxy"), Release("globals"), Release("context")>>

\* C8: once the function Value returned by Context.Function has been freed
\* and its Context has been freed, the registry no longer contains the
\* entry of that function's token.
C8_EntryRemovedAfterFree ==
    \A x \in exposed :
        (fnState[x.val.n] = "freed" /\ ~ctxAlive[x.ctx])
            => x.val.n \notin DOMAIN funcPtrStore

(***************************************************************************)
(* RegistrySpec: threads inside storeFuncPtr, restoreFuncPtr and           *)
(* freeFuncPtr, one statement at a time, in either variant of the file.    *)
(* The finalizer variant's map holds the Function alone; it is kept here   *)
(* as an entry without a context.                                          *)
(***************************************************************************)
evalVars == <<ctxAlive, exception, ctxGlobals, ctxProxy, globalObj, fnState,
              exposed, ret>>

\* The addresses C.malloc can hand out.
Addrs == 1..MaxFuncs

\* The entry thread t registers in its n-th call: its own context's, and
\* a closure no other call registers.
ThreadEntry(t, n) ==
    IF variant = "explicit"
    THEN funcEntry(((t - 1) % NumContexts) + 1, RetFn(JSInt(n)))
    ELSE funcEntry(NoCtx, RetFn(JSInt(n)))

\* The tokens handed out by storeFuncPtr calls that have returned.
Issued == {r.ptr : r \in returned}

SetLocal(t, l) == [local EXCEPT ![t] = l]
Goto(t, label) == [pc EXCEPT ![t] = label]

\* funcPtrLock.Lock() returns once no thread holds the mutex.
LockNeverBlocks(lock) == TRUE
LockIsFree(lock) == lock = NoThread

\* A thread calls storeFuncPtr(v); the finalizer variant returns nil for a
\* nil v.
StoreCall(t, isNil) ==
    /\ ~panicked
    /\ pc[t] = "idle"
    /\ nStores < MaxFuncs
    /\ isNil => variant = "finalizer"
    /\ nStores' = nStores + 1
    /\ IF isNil
       THEN UNCHANGED <<pc, local>>
       ELSE /\ local' = SetLocal(t, Local(ThreadEntry(t, nStores), NilPtr, ZeroEntry, FALSE))
            /\ pc' = Goto(t, IF variant = "explicit" THEN "store_add" ELSE "store_malloc")
    /\ UNCHANGED <<evalVars, funcPtrLen, funcPtrStore, panicked, variant,
                   funcPtrLock, heap, returned, jobVars, extVars>>

\* id := atomic.AddInt64(&funcPtrLen, 1) - 1
StoreAdd(t) ==
    /\ ~panicked
    /\ pc[t] = "store_add"
    /\ funcPtrLen' = AddInt64(funcPtrLen)
    /\ local' = SetLocal(t, [local[t] EXCEPT !.ptr = storeFuncPtrId(funcPtrLen)])
    /\ pc' = Goto(t, "store_lock")
    /\ UNCHANGED <<evalVars, funcPtrStore, panicked, variant, funcPtrLock, heap,
                   returned, nStores, jobVars, extVars>>

\* var ptr unsafe.Pointer = C.malloc(C.size_t(1)); a nil result panics.
StoreMalloc(t) ==
    /\ ~panicked
    /\ pc[t] = "store_malloc"
    /\ IF Addrs \ heap = {}
       THEN /\ panicked' = TRUE
            /\ UNCHANGED <<heap, local, pc>>
       ELSE \E a \in Addrs \ heap :
                /\ heap' = heap \cup {a}
                /\ local' = SetLocal(t, [local[t] EXCEPT !.ptr = a])
                /\ pc' = Goto(t, "store_lock")
                /\ UNCHANGED panicked
    /\ UNCHANGED <<evalVars, funcPtrLen, funcPtrStore, variant, funcPtrLock,
                   returned, nStores, jobVars, extVars>>

\* funcPtrLock.Lock() of storeFuncPtr
StoreLock(t) ==
    /\ ~panicked
    /\ pc[t] = "store_lock"
    /\ LockIsFree(funcPtrLock)
    /\ funcPtrLock' = t
    /\ pc' = Goto(t, "store_write")
    /\ UNCHANGED <<baseVars, variant, heap, local, returned, nStores, jobVars, extVars>>

\* funcPtrStore[id] = v
StoreWrite(t) ==
    /\ ~panicked
    /\ pc[t] = "store_write"
    /\ funcPtrStore' = MapPut(funcPtrStore, local[t].ptr, local[t].v)
    /\ pc' = Goto(t, "store_return")
    /\ UNCHANGED <<evalVars, funcPtrLen, panicked, variant, funcPtrLock, heap,
                   local, returned, nStores, jobVars, extVars>>

\* return id, after the deferred funcPtrLock.Unlock()
StoreReturn(t) ==
    /\ ~panicked
    /\ pc[t] = "store_return"
    /\ funcPtrLock' = NoThread
    /\ returned' = returned \cup {[ptr |-> local[t].ptr, v |-> local[t].v]}
    /\ local' = SetLocal(t, NoLocal)
    /\ pc' = Goto(t, "idle")
    /\ UNCHANGED <<baseVars, variant, heap, nStores, jobVars, extVars>>

\* The tokens a caller can hand to restoreFuncPtr: any int64 a script can
\* pass as the leading argument in the explicit variant, the opaque pointer
\* of a live function object (or nil) in the finalizer variant.
RestorableTokens ==
    IF variant = "explicit" THEN 0..(MaxFuncs - 1) ELSE Issued \cup {NilPtr}

\* A thread calls restoreFuncPtr(ptr); the finalizer variant returns nil
\* for a nil ptr.
RestoreCall(t, ptr) ==
    /\ ~panicked
    /\ pc[t] = "idle"
    /\ ptr \in RestorableTokens
    /\ local' = SetLocal(t, Local(ZeroEntry, ptr, ZeroEntry, ptr \in Issued))
    /\ pc' = Goto(t, IF variant = "finalizer" /\ ptr = NilPtr
                     THEN "restore_return" ELSE "restore_lock")
    /\ UNCHANGED <<baseVars, variant, funcPtrLock, heap, returned, nStores, jobVars, extVars>>

\* funcPtrLock.Lock() of restoreFuncPtr
RestoreLock(t) ==
    /\ ~panicked
    /\ pc[t] = "restore_lock"
    /\ LockIsFree(funcPtrLock)
    /\ funcPtrLock' = t
    /\ pc' = Goto(t, "restore_read")
    /\ UNCHANGED <<baseVars, variant, heap, local, returned, nStores, jobVars, extVars>>

\* return funcPtrStore[ptr]: the operand is read, then the deferred
\* funcPtrLock.Unlock() runs.
RestoreRead(t) ==
    /\ ~panicked
    /\ pc[t] = "restore_read"
    /\ local' = SetLocal(t, [local[t] EXCEPT !.res = restoreFuncPtr(funcPtrStore, local[t].ptr)])
    /\ funcPtrLock' = NoThread
    /\ pc' = Goto(t, "restore_return")
    /\ UNCHANGED <<baseVars, variant, heap, returned, nStores, jobVars, extVars>>

\* restoreFuncPtr hands local[t].res to its caller.
RestoreReturn(t) ==
    /\ ~panicked
    /\ pc[t] = "restore_return"
    /\ local' = SetLocal(t, NoLocal)
    /\ pc' = Goto(t, "idle")
    /\ UNCHANGED <<baseVars, variant, funcPtrLock, heap, returned, nStores, jobVars, extVars>>

\* The finalizer of a function object calls freeFuncPtr(ptr) with the
\* object's opaque pointer, once nothing can call the object any more; a
\* nil ptr returns at once.
FreeCall(t, ptr) ==
    /\ ~panicked
    /\ variant = "finalizer"
    /\ pc[t] = "idle"
    /\ ptr \in Issued \cup {NilPtr}
    /\ \A u \in Threads : pc[u] \in {"restore_lock", "restore_read", "restore_return"}
                             => local[u].ptr # ptr
    /\ returned' = {r \in returned : r.ptr # ptr}
    /\ IF ptr = NilPtr
       THEN UNCHANGED <<pc, local>>
       ELSE /\ local' = SetLocal(t, Local(ZeroEntry, ptr, ZeroEntry, TRUE))
            /\ pc' = Goto(t, "free_lock")
    /\ UNCHANGED <<baseVars, variant, funcPtrLock, heap, nStores, jobVars, extVars>>

\* funcPtrLock.Lock() of freeFuncPtr
FreeLock(t) ==
    /\ ~panicked
    /\ pc[t] = "free_lock"
    /\ LockIsFree(funcPtrLock)
    /\ funcPtrLock' = t
    /\ pc' = Goto(t, "free_delete")
    /\ UNCHANGED <<baseVars, variant, heap, local, returned, nStores, jobVars, extVars>>

\* delete(funcPtrStore, ptr)
FreeDelete(t) ==
    /\ ~panicked
    /\ pc[t] = "free_delete"
    /\ funcPtrStore' = MapDelete(funcPtrStore, local[t].ptr)
    /\ pc' = Goto(t, "free_cfree")
    /\ UNCHANGED <<evalVars, funcPtrLen, panicked, variant, funcPtrLock, heap,
                   local, returned, nStores, jobVars, extVars>>

\* C.free(ptr), then the deferred funcPtrLock.Unlock() as the call returns.
FreeCFree(t) ==
    /\ ~panicked
    /\ pc[t] = "free_cfree"
    /\ heap' = heap \ {local[t].ptr}
    /\ funcPtrLock' = NoThread
    /\ local' = SetLocal(t, NoLocal)
    /\ pc' = Goto(t, "idle")
    /\ UNCHANGED <<baseVars, variant, returned, nStores, jobVars, extVars>>

RegistryInit ==
    /\ BaseInit
    /\ RegInit
    /\ variant \in {"explicit", "finalizer"}
    /\ JobInit
    /\ ResInit
    /\ MoreInit

RegistryNext ==
    \/ \E t \in Threads, isNil \in BOOLEAN : StoreCall(t, isNil)
    \/ \E t \in Threads : StoreAdd(t)
    \/ \E t \in Threads : StoreMalloc(t)
    \/ \E t \in Threads : StoreLock(t)
    \/ \E t \in Threads : StoreWrite(t)
    \/ \E t \in Threads : StoreReturn(t)
    \/ \E t \in Threads, ptr \in 0..MaxFuncs : RestoreCall(t, ptr)
    \/ \E t \in Threads : RestoreLock(t)
    \/ \E t \in Threads : RestoreRead(t)
    \/ \E t \in Threads : RestoreReturn(t)
    \/ \E t \in Threads, ptr \in 0..MaxFuncs : FreeCall(t, ptr)
    \/ \E t \in Threads : FreeLock(t)
    \/ \E t \in Threads : FreeDelete(t)
    \/ \E t \in Threads : FreeCFree(t)

RegistrySpec == RegistryInit /\ [][RegistryNext]_vars

\* The statements between computing a token and returning it.
StoreInFlight == {"store_lock", "store_write", "store_return"}

\* C6: in the explicit variant, for any interleaving of concurrent
\* storeFuncPtr calls, every call gets a token different from every other
\* token handed out, no stored entry is overwritten or lost, and once a
\* call has returned restoreFuncPtr of its token yields exactly its entry.
C6_ConcurrentStoresKeepEveryEntry ==
    variant = "explicit" =>
        /\ \A r, s \in returned : r.ptr = s.ptr => r = s
        /\ \A t \in Threads : pc[t] \in StoreInFlight =>
              /\ local[t].ptr \notin Issued
              /\ \A u \in Threads \ {t} :
                    pc[u] \in StoreInFlight => local[u].ptr # local[t].ptr
        /\ \A r \in returned : r.ptr \in DOMAIN funcPtrStore /\ funcPtrStore[r.ptr] = r.v
        /\ \A t \in Threads : (pc[t] = "restore_return" /\ local[t].known) =>
              [ptr |-> local[t].ptr, v |-> local[t].res] \in returned

\* Two storeFuncPtr calls overlap in the explicit variant: one has written
\* its entry and holds the lock while the other, its token drawn, waits.
C6_Witness ==
    /\ variant = "explicit"
    /\ \E t, u \in Threads :
          /\ pc[t] = "store_return"
          /\ pc[u] = "store_lock"
          /\ local[t].ptr \in DOMAIN funcPtrStore

\* The statements that read or write the map funcPtrStore.
MapAccess == {"store_write", "restore_read", "free_delete"}

\* C7: in both variants a thread reads or writes funcPtrStore (in store,
\* restore and free) only while it holds funcPtrLock, so no two threads
\* are inside a lookup or mutation at the same time.
C7_MapAccessUnderLock ==
    /\ \A t \in Threads : pc[t] \in MapAccess => funcPtrLock = t
    /\ \A t, u \in Threads : (pc[t] \in MapAccess /\ pc[u] \in MapAccess) => t = u

\* A thread is deleting an entry in the finalizer variant while another
\* waits for the lock to look one up.
C7_Witness ==
    /\ variant = "finalizer"
    /\ \E t, u \in Threads :
          /\ pc[t] = "free_delete"
          /\ pc[u] = "restore_lock"
          /\ funcPtrLock = t

(***************************************************************************)
(* JobSpec: scripts leave jobs pending on the runtime and the host then    *)
(* calls Runtime.ExecutePendingJob until it answers io.EOF.                *)
(***************************************************************************)
MaxJobs == 2

\* A pending job: the context it runs in, the value it throws when it
\* fails, and whether running it enqueues one more job.
Job(c, throws, thrown, spawns) ==
    [ctx |-> c, throws |-> throws, thrown |-> thrown, spawns |-> spawns]

\* What a failing job throws: an Error object, or a value that is none.
Thrown == {JSErrorObj(ClassError, <<97>>, EngineStack), JSInt(1)}

Jobs ==
    {Job(c, FALSE, JS_UNDEFINED, s) : c \in Contexts, s \in BOOLEAN}
        \cup {Job(c, TRUE, v, FALSE) : c \in Contexts, v \in Thrown}

\* The job a job enqueues while it runs.
Spawned(job) == Job(job.ctx, FALSE, JS_UNDEFINED, FALSE)

\* JS_ExecutePendingJob(rt, &ctx): 0 with no job pending; otherwise the
\* first job is taken off the list and run, giving 1, or -1 with the
\* job's exception pending in its context.
JS_ExecutePendingJob(queue, exc) ==
    IF queue = <<>>
    THEN [rc |-> 0, ctx |-> NoCtx, queue |-> queue, exc |-> exc]
    ELSE LET job == Head(queue)
         IN  [rc |-> IF job.throws THEN -1 ELSE 1,
              ctx |-> job.ctx,
              queue |-> IF job.spawns THEN Tail(queue) \o <<Spawned(job)>>
                        ELSE Tail(queue),
              exc |-> IF job.throws THEN JS_Throw(exc, job.ctx, job.thrown) ELSE exc]

\* func (r Runtime) ExecutePendingJob() (Context, error): the error it
\* returns for the engine's result code err.
ExecutePendingJobNeverEOF(err, exc, c) ==
    IF err < 0 THEN ContextException(exc, c) ELSE [err |-> NilErr, exc |-> exc]
ExecutePendingJobError(err, exc, c) ==
    IF err <= 0
    THEN IF err = 0
         THEN [err |-> EOF, exc |-> exc]
         ELSE ContextException(exc, c)
    ELSE [err |-> NilErr, exc |-> exc]

\* Eval of a script that leaves job pending on the runtime, as
\* `Promise.resolve().then(f)` does.
EvalEnqueueingJob(job) ==
    /\ phase = "schedule"
    /\ Len(jobQueue) < MaxJobs
    /\ ctxAlive[job.ctx]
    /\ jobQueue' = Append(jobQueue, job)
    /\ jobsScheduled' = jobsScheduled + 1
    /\ UNCHANGED <<baseVars, regVars, extVars, jobsExecuted, jobCalls, phase>>

\* The host begins its loop `for { _, err := rt.ExecutePendingJob(); if
\* err == io.EOF { break } }`.
StartDrain ==
    /\ phase = "schedule"
    /\ phase' = "drain"
    /\ UNCHANGED <<baseVars, regVars, extVars, jobQueue, jobsScheduled, jobsExecuted, jobCalls>>

\* One call of Runtime.ExecutePendingJob by the loop.
ExecutePendingJob ==
    /\ phase = "drain"
    /\ LET r == JS_ExecutePendingJob(jobQueue, exception)
           e == ExecutePendingJobError(r.rc, r.exc, r.ctx)
       IN  /\ jobQueue' = r.queue
           /\ exception' = e.exc
           /\ ret' = Ret("ExecutePendingJob", r.ctx, NoScript, JSInt(r.rc), e.err,
                         <<>>, FALSE)
           /\ jobsExecuted' = jobsExecuted + (IF r.rc = 0 THEN 0 ELSE 1)
           /\ jobsScheduled' = jobsScheduled + (Len(r.queue) + (IF r.rc = 0 THEN 0 ELSE 1)
                                                  - Len(jobQueue))
           /\ jobCalls' = jobCalls + 1
           /\ phase' = IF e.err = EOF THEN "done" ELSE "drain"
    /\ UNCHANGED <<ctxAlive, ctxGlobals, ctxProxy, globalObj, funcPtrLen, funcPtrStore,
                   fnState, exposed, panicked, regVars, extVars>>

JobNext ==
    \/ \E job \in Jobs : EvalEnqueueingJob(job)
    \/ StartDrain
    \/ ExecutePendingJob

\* The host thread keeps running its loop.
JobSpec == Init /\ [][JobNext]_vars /\ WF_vars(ExecutePendingJob)

\* C9: the error of ExecutePendingJob is nil if and only if a job ran
\* successfully, io.EOF if and only if no job was pending, and a non-nil,
\* non-EOF error if and only if the job raised an exception, whatever it
\* threw.
C9_OutcomesDistinguishable ==
    ret.op = "ExecutePendingJob" =>
        /\ ret.err = NilErr <=> ret.val = JSInt(1)
        /\ ret.err = EOF <=> ret.val = JSInt(0)
        /\ ret.err \notin {NilErr, EOF} <=> ret.val = JSInt(-1)

\* The loop has ended.
Drained == phase = "done"

\* C10: with finitely many jobs scheduled, the loop calling
\* ExecutePendingJob until io.EOF ends; each call not answering io.EOF
\* removed exactly one pending job, io.EOF is answered exactly when the
\* queue is empty, and the loop makes one call per job scheduled
\* (by scripts or by earlier jobs) plus the last one.
C10_DrainTerminates ==
    /\ [](jobsExecuted + Len(jobQueue) = jobsScheduled)
    /\ [](jobCalls = jobsExecuted + (IF Drained THEN 1 ELSE 0))
    /\ [](Drained => (jobQueue = <<>> /\ ret.err = EOF /\ jobCalls = jobsScheduled + 1))
    /\ [](ret.err = EOF => Drained)
    /\ (phase = "drain") ~> Drained

\* The loop has ended after running MaxJobs jobs and one more that an
\* earlier job enqueued.
C10_Witness ==
    /\ Drained
    /\ jobsExecuted > MaxJobs
    /\ jobCalls = jobsScheduled + 1

(***************************************************************************)
(* Calls of the Value wrapper on the objects of the scenarios.             *)
(***************************************************************************)
\* What the host stores: a number and a string.
ObjValues == {JSInt(1), JSStr(<<97>>)}
\* The property names the host uses.
PropNames == ByteStrings(MaxLen) \cup {StrLength}
Indices == (-1)..MaxIndex

\* The number of own properties of an object, "length" of an array included.
OwnProperties(obj) ==
    Cardinality(DOMAIN obj.props) + Cardinality(DOMAIN obj.elems)
        + (IF obj.class = "array" THEN 1 ELSE 0)

\* test.Set(name, val)
Set(o, name, val) ==
    /\ objs' = [objs EXCEPT ![o] = ValueSet(objs[o], name, val)]
    /\ call' = CallRec("Set", o, name, 0, val, JS_UNDEFINED, objs[o])
    /\ events' = <<>>
    /\ UNCHANGED <<baseVars, regVars, jobVars, moreVars, acquired>>

\* test.Get(name)
Get(o, name) ==
    /\ call' = CallRec("Get", o, name, 0, JS_UNDEFINED, ValueGet(objs[o], name), objs[o])
    /\ events' = <<Acquire("result")>>
    /\ UNCHANGED <<baseVars, regVars, jobVars, moreVars, acquired, objs>>

\* test.SetByInt64(idx, val)
SetByInt64(o, idx, val) ==
    /\ objs' = [objs EXCEPT ![o] = ValueSetByInt64(objs[o], idx, val)]
    /\ call' = CallRec("SetByInt64", o, <<>>, idx, val, JS_UNDEFINED, objs[o])
    /\ events' = <<>>
    /\ UNCHANGED <<baseVars, regVars, jobVars, moreVars, acquired>>

\* test.GetByUint32(idx)
GetByUint32(o, idx) ==
    /\ call' = CallRec("GetByUint32", o, <<>>, idx, JS_UNDEFINED,
                       ValueGetByUint32(objs[o], idx), objs[o])
    /\ events' = <<Acquire("result")>>
    /\ UNCHANGED <<baseVars, regVars, jobVars, moreVars, acquired, objs>>

\* test.Len()
Len64(o) ==
    /\ call' = CallRec("Len", o, <<>>, 0, JS_UNDEFINED, JSInt(ValueLen(objs[o])), objs[o])
    /\ events' = ValueLenEvents
    /\ UNCHANGED <<baseVars, regVars, jobVars, moreVars, acquired, objs>>

\* test.PropertyNames()
PropertyNames(o, failed) ==
    /\ call' = CallRec("PropertyNames", o, <<>>, 0, JS_UNDEFINED,
                       IF failed THEN JS_EXCEPTION ELSE JSInt(OwnProperties(objs[o])),
                       objs[o])
    /\ events' = PropertyNamesEvents(OwnProperties(objs[o]), failed)
    /\ UNCHANGED <<baseVars, regVars, jobVars, moreVars, acquired, objs>>

(***************************************************************************)
(* ReleaseSpec: the wrapper operations that take references for their own  *)
(* use, on one context with an object and an array.                        *)
(***************************************************************************)
ReleaseNext ==
    \/ \E ok \in BOOLEAN : Function(EvalCtx, RetFn(JS_NULL), ok)
    \/ \E s \in {ExprScript(JSInt(1)), SyntaxScript, ThrowScript(JSInt(1))} :
          Eval(EvalCtx, s)
    \/ \E name \in {<<97>>, StrLength} : Set("object", name, JSStr(<<97>>))
    \/ \E idx \in 0..MaxIndex : SetByInt64("array", idx, JSStr(<<97>>))
    \/ \E o \in Objs : Len64(o)
    \/ \E o \in Objs, failed \in BOOLEAN : PropertyNames(o, failed)

ReleaseSpec == Init /\ [][ReleaseNext]_vars

\* The references a call takes for its own use and does not hand on.
OwnUse == {"shim", "exception", "stack", "length", "atoms", "atom"}

\* C11: every Value or Atom a wrapper operation acquires for its own use
\* (the shim in Context.Function, the exception in Context.Exception, the
\* "stack" in Value.Error, the "length" in Value.Len, the atom array and
\* its atoms in PropertyNames) is released exactly once before the
\* operation returns.
C11_OwnUseReleasedExactlyOnce ==
    \A i \in 1..Len(events) :
        (events[i].kind = "acquire" /\ events[i].name \in OwnUse) =>
            /\ Cardinality({j \in 1..Len(events) :
                               events[j] = Event("release", events[i].name, events[i].i)}) = 1
            /\ \E j \in (i + 1)..Len(events) :
                  events[j] = Event("release", events[i].name, events[i].i)


(***************************************************************************)
(* ProgramSpec: each test function of the explicit-Free variant and the    *)
(* example's main, run statement by statement to its return and through    *)
(* its deferred calls.                                                     *)
(***************************************************************************)
Running == prog # "none" /\ ppc \in 1..Len(Program(prog))
Cur == Program(prog)[ppc]
Without(held, v) == {x \in held : x.v # v}

\* A statement that obtains, frees and defers nothing.
ProgOther ==
    /\ Running /\ Cur.op = "other"
    /\ ppc' = ppc + 1
    /\ UNCHANGED <<baseVars, regVars, jobVars, resVars, workVars, conv, fobj, prog, owned, deferred, freed>>

\* result, err := context.Eval(...), context.String(...), obj.Get(...):
\* the host now owns the Value.
ProgAcquire ==
    /\ Running /\ Cur.op = "acquire"
    /\ owned' = owned \cup {[v |-> Cur.v, counted |-> Cur.counted]}
    /\ ppc' = ppc + 1
    /\ UNCHANGED <<baseVars, regVars, jobVars, resVars, workVars, conv, fobj, prog, deferred, freed>>

\* obj.Set(name, v), obj.SetByInt64(i, v), obj.SetFunction(name, fn): the
\* engine takes the Value over.
ProgConsume ==
    /\ Running /\ Cur.op = "consume"
    /\ owned' = Without(owned, Cur.v)
    /\ ppc' = ppc + 1
    /\ UNCHANGED <<baseVars, regVars, jobVars, resVars, workVars, conv, fobj, prog, deferred, freed>>

\* func (v Value) Free()
ProgFree ==
    /\ Running /\ Cur.op = "free"
    /\ owned' = Without(owned, Cur.v)
    /\ ppc' = ppc + 1
    /\ UNCHANGED <<baseVars, regVars, jobVars, resVars, workVars, conv, fobj, prog, deferred, freed>>

\* defer x.Free()
ProgDefer ==
    /\ Running /\ Cur.op = "defer"
    /\ deferred' = <<Cur.v>> \o deferred
    /\ ppc' = ppc + 1
    /\ UNCHANGED <<baseVars, regVars, jobVars, resVars, workVars, conv, fobj, prog, owned, freed>>

\* if ..., for ... range ..., check(err)
ProgBranch ==
    /\ Running /\ Cur.op = "branch"
    /\ ppc' \in {ppc + 1, Cur.to}
    /\ UNCHANGED <<baseVars, regVars, jobVars, resVars, workVars, conv, fobj, prog, owned, deferred, freed>>

\* the end of a loop body
ProgJump ==
    /\ Running /\ Cur.op = "jump"
    /\ ppc' = Cur.to
    /\ UNCHANGED <<baseVars, regVars, jobVars, resVars, workVars, conv, fobj, prog, owned, deferred, freed>>

\* return, the end of the function body, or a panic
ProgReturn ==
    /\ Running /\ Cur.op = "return"
    /\ ppc' = 0
    /\ UNCHANGED <<baseVars, regVars, jobVars, resVars, workVars, conv, fobj, prog, owned, deferred, freed>>

\* The function has returned: its deferred calls run, the most recently
\* deferred first (func (ctx *Context) Free(), func (r Runtime) Free(),
\* func (v Value) Free()).
ProgRunDeferred ==
    /\ prog # "none" /\ ppc = 0 /\ deferred # <<>>
    /\ deferred' = Tail(deferred)
    /\ owned' = Without(owned, Head(deferred))
    /\ freed' = CASE Head(deferred) = "context" ->
                       [freed EXCEPT !.context = freed.context + 1]
                  [] Head(deferred) = "runtime" ->
                       [freed EXCEPT !.runtime = freed.runtime + 1]
                  [] OTHER -> freed
    /\ UNCHANGED <<baseVars, regVars, jobVars, resVars, workVars, conv, fobj, prog, ppc>>

ProgramInit ==
    /\ BaseInit
    /\ RegInit
    /\ variant = "explicit"
    /\ JobInit
    /\ ResInit
    /\ \E p \in ProgramNames : ProgInit(p)
    /\ WorkInit("none")
    /\ conv = NoConv
    /\ fobj = <<>>

ProgramNext ==
    \/ ProgOther
    \/ ProgAcquire
    \/ ProgConsume
    \/ ProgFree
    \/ ProgDefer
    \/ ProgBranch
    \/ ProgJump
    \/ ProgReturn
    \/ ProgRunDeferred

ProgramSpec == ProgramInit /\ [][ProgramNext]_vars

\* C12: in every test of the explicit-Free variant and in the example,
\* Runtime.Free runs at most once, and when it has run the Context has been
\* freed and the program holds no Value that it obtained and neither
\* released nor handed to a Set.  (Values that hold no reference, numbers,
\* booleans and the exception marker, are left out of the count: freeing
\* them does nothing.)
C12_RuntimeFreedLastAndOnce ==
    /\ freed.runtime <= 1
    /\ freed.runtime = 1 =>
          /\ freed.context = 1
          /\ \A x \in owned : ~x.counted

(***************************************************************************)
(* GlobalsSpec: Globals() called any number of times on each context, in   *)
(* either variant of the binding.                                          *)
(***************************************************************************)
GlobalsNext ==
    \/ \E c \in Contexts : Globals(c)
    \/ \E c \in Contexts : variant = "explicit" /\ ContextFree(c)
    \/ \E c \in Contexts, s \in {ExprScript(JSInt(1)), SyntaxScript} : Eval(c, s)

GlobalsSpec == RegistryInit /\ [][GlobalsNext]_vars

\* C14: every Globals() call on a Context returns a handle to that
\* Context's global object, and however many calls are made the reference
\* is acquired exactly once, by the first call, and released only by
\* Context.Free.
C14_GlobalsAcquiredOnce ==
    /\ \A c \in Contexts : acquired[c].globals <= 1
    /\ ret.op = "Globals" =>
          /\ ret.val = GlobalObject(ret.ctx)
          /\ acquired[ret.ctx].globals = 1
    /\ Count(events, "release", "globals") > 0 => ret.op = "ContextFree"

\* C14, amended: every Globals() call returns a handle to the Context's
\* global object.  In the explicit-Free variant the reference is acquired
\* exactly once, by the first call, kept in ctx.globals and released only
\* by Context.Free.  In the finalizer variant nothing is cached and every
\* call acquires a reference of its own.
C14_GlobalsCachedInExplicitVariantOnly ==
    /\ ret.op = "Globals" =>
          /\ ret.val = GlobalObject(ret.ctx)
          /\ acquired[ret.ctx].globals >= 1
          /\ variant = "finalizer" => events = <<Acquire("globals")>>
    /\ \A c \in Contexts :
          IF variant = "explicit"
          THEN acquired[c].globals = (IF ctxGlobals[c] THEN 1 ELSE 0)
          ELSE ~ctxGlobals[c]
    /\ Count(events, "release", "globals") > 0 =>
          variant = "explicit" /\ ret.op = "ContextFree"

\* A later call in the explicit-Free variant: the cached reference is
\* returned and none is acquired.
C14_Witness ==
    /\ variant = "explicit"
    /\ ret.op = "Globals"
    /\ events = <<>>
    /\ acquired[ret.ctx].globals = 1

(***************************************************************************)
(* FunctionSpec: Context.Function called repeatedly on each context, the   *)
(* engine building the shim or failing to.                                 *)
(***************************************************************************)
FunctionNext ==
    \/ \E c \in Contexts, ok \in BOOLEAN : Function(c, RetFn(JS_NULL), ok)
    \/ \E c \in Contexts, ok \in BOOLEAN : SetFunction(c, "A", RetFn(JS_NULL), ok)
    \/ \E id \in 0..(MaxFuncs - 1) : ValueFree(id)

FunctionSpec == Init /\ [][FunctionNext]_vars

\* C15: however many times Context.Function is called on a Context, the
\* trampoline value is created at most once, by the first call whose shim
\* the engine built, and cached; a call whose shim fails creates nothing;
\* the function values returned on one Context differ only in their token.
C15_TrampolineCreatedAtMostOnce ==
    /\ \A c \in Contexts :
          /\ acquired[c].proxy <= 1
          /\ acquired[c].proxy = 1 <=> ctxProxy[c]
    /\ ret.op = "Function" =>
          IF IsException(ret.val)
          THEN events = <<>>
          ELSE ctxProxy[ret.ctx] /\ Count(events, "acquire", "proxy") <= 1
    /\ \A x, y \in exposed :
          /\ x.val.n # y.val.n
          /\ x.ctx = y.ctx
          => [x.val EXCEPT !.n = y.val.n] = y.val

\* Two functions made on one context, through one trampoline.
C15_Witness ==
    \E x, y \in exposed :
        /\ x.ctx = y.ctx
        /\ x.val.n # y.val.n
        /\ acquired[x.ctx].proxy = 1

(***************************************************************************)
(* WorkerSpec: TestConcurrency.  One goroutine per Context, each with a    *)
(* Runtime of its own, evaluating a script per request until the request   *)
(* channel is closed; a goroutine may also bind a closure of its own to    *)
(* its global object and call it.                                          *)
(***************************************************************************)
\* m, the number of requests the test sends.
MaxReqs == 2

\* A `for range ch` loop ends when ch is closed and empty.
RangeNeverEnds(ch) == FALSE
RangeEnds(ch) == ch.closed /\ ch.len = 0

\* req <- struct{}{}, blocking while the channel holds n requests
MainSend ==
    /\ ~reqCh.closed
    /\ reqCh.sent < MaxReqs
    /\ reqCh.len < NumContexts
    /\ reqCh' = Chan(reqCh.len + 1, reqCh.sent + 1, FALSE)
    /\ UNCHANGED <<baseVars, regVars, jobVars, resVars, progVars, conv, fobj, wpc, wres, resCh>>

\* close(req)
MainClose ==
    /\ ~reqCh.closed
    /\ reqCh.sent = MaxReqs
    /\ reqCh' = Chan(reqCh.len, reqCh.sent, TRUE)
    /\ UNCHANGED <<baseVars, regVars, jobVars, resVars, progVars, conv, fobj, wpc, wres, resCh>>

\* for range req
WorkerReceive(c) ==
    /\ wpc[c] = "recv"
    /\ IF reqCh.len > 0
       THEN /\ reqCh' = Chan(reqCh.len - 1, reqCh.sent, reqCh.closed)
            /\ wpc' = [wpc EXCEPT ![c] = "work"]
       ELSE /\ RangeEnds(reqCh)
            /\ wpc' = [wpc EXCEPT ![c] = "exit"]
            /\ UNCHANGED reqCh
    /\ UNCHANGED <<baseVars, regVars, jobVars, resVars, progVars, conv, fobj, wres, resCh>>

\* The closure goroutine c binds: it returns c's own number.
WorkerFn(c) == RetFn(JSInt(c))

\* context.Globals().SetFunction("A", fn)
WorkerSetFunction(c) ==
    /\ wpc[c] = "work"
    /\ SetFunctionCall(c, "A", WorkerFn(c), TRUE)
    /\ wpc' = [wpc EXCEPT ![c] = "eval"]
    /\ UNCHANGED <<progVars, conv, fobj, wres, reqCh, resCh>>

\* The scripts goroutine c evaluates: an expression of its own, and a call
\* of its closure once that is bound.  Each has the value c.
WorkerScripts(c) ==
    {ExprScript(JSInt(c))}
        \cup (IF globalObj[c]["A"].tag = "function" THEN {CallScript("A", <<>>)} ELSE {})

\* result, err := context.Eval(...)
WorkerEval(c) ==
    /\ wpc[c] \in {"work", "eval"}
    /\ \E s \in WorkerScripts(c) : EvalCall(c, s)
    /\ wres' = [wres EXCEPT ![c] = [val |-> ret'.val, err |-> ret'.err]]
    /\ wpc' = [wpc EXCEPT ![c] = "send"]
    /\ UNCHANGED <<progVars, conv, fobj, reqCh, resCh>>

\* require.NoError(t, err); res <- result.Int64(); result.Free()
WorkerSend(c) ==
    /\ wpc[c] = "send"
    /\ IF wres[c].err # NilErr
       THEN /\ wpc' = [wpc EXCEPT ![c] = "exit"]
            /\ UNCHANGED resCh
       ELSE /\ Len(resCh) < MaxReqs
            /\ resCh' = Append(resCh, ValueInt64(wres[c].val))
            /\ wpc' = [wpc EXCEPT ![c] = "recv"]
    /\ UNCHANGED <<baseVars, regVars, jobVars, resVars, progVars, conv, fobj, wres, reqCh>>

\* The deferred context.Free(), runtime.Free() and wg.Done().
WorkerExit(c) ==
    /\ wpc[c] = "exit"
    /\ ContextFreeCall(c)
    /\ wpc' = [wpc EXCEPT ![c] = "done"]
    /\ UNCHANGED <<progVars, conv, fobj, wres, reqCh, resCh>>

Worker(c) ==
    \/ WorkerReceive(c)
    \/ WorkerSetFunction(c)
    \/ WorkerEval(c)
    \/ WorkerSend(c)
    \/ WorkerExit(c)

WorkerInit ==
    /\ BaseInit
    /\ RegInit
    /\ variant = "explicit"
    /\ JobInit
    /\ ResInit
    /\ ProgInit("none")
    /\ WorkInit("recv")
    /\ conv = NoConv
    /\ fobj = <<>>

WorkerNext ==
    \/ MainSend
    \/ MainClose
    \/ \E c \in Contexts : WorkerReceive(c)
    \/ \E c \in Contexts : WorkerSetFunction(c)
    \/ \E c \in Contexts : WorkerEval(c)
    \/ \E c \in Contexts : WorkerSend(c)
    \/ \E c \in Contexts : WorkerExit(c)

\* Every goroutine that can take a step eventually takes one.
WorkerSpec ==
    WorkerInit /\ [][WorkerNext]_vars /\ \A c \in Contexts : WF_vars(Worker(c))

\* What an Eval of goroutine c must hand back: its own script's value.
OwnResult(c) == [val |-> JSInt(c), err |-> NilErr]

\* A step in which goroutine c does not move leaves c's context and c's
\* registry entries as they were.
Untouched(c) ==
    /\ ctxAlive'[c] = ctxAlive[c]
    /\ exception'[c] = exception[c]
    /\ ctxGlobals'[c] = ctxGlobals[c]
    /\ ctxProxy'[c] = ctxProxy[c]
    /\ globalObj'[c] = globalObj[c]
    /\ \A id \in DOMAIN funcPtrStore :
          funcPtrStore[id].ctx = c =>
              id \in DOMAIN funcPtrStore' /\ funcPtrStore'[id] = funcPtrStore[id]
    /\ \A id \in DOMAIN funcPtrStore' \ DOMAIN funcPtrStore :
          funcPtrStore'[id].ctx # c

AllDone == \A c \in Contexts : wpc[c] = "done"

\* C16: with one goroutine per Runtime and Context and any interleaving of
\* their Eval and Function calls, every Eval returns its own script's
\* result with a nil error, no call of one goroutine changes the pending
\* exception, the cached globals, the cached trampoline or the registry
\* entries of another, and once the request channel is closed every
\* goroutine terminates.
C16_WorkersIsolatedAndTerminate ==
    /\ [](\A c \in Contexts : wpc[c] = "send" => wres[c] = OwnResult(c))
    /\ [][\A c \in Contexts : wpc'[c] = wpc[c] => Untouched(c)]_vars
    /\ (reqCh.closed ~> AllDone)

\* Every request answered, every goroutine ended, closures of two
\* goroutines in the registry.
C16_Witness ==
    /\ AllDone
    /\ Len(resCh) = MaxReqs
    /\ \E x, y \in exposed : x.ctx # y.ctx

(***************************************************************************)
(* Numbers of the host's full widths.  An int64 does not fit the integers  *)
(* TLC computes with, so a number is a sign and a magnitude in binary,     *)
(* most significant bit first, without leading zeros (<<>> is zero), and   *)
(* the engine's conversions are computed on these bit strings.             *)
(***************************************************************************)
Int32Bits == 32
Int64Bits == 64
\* The significand of a float64: 52 stored bits and the implicit one.
Float64Bits == 53

Zeros(n) == [i \in 1..n |-> 0]
Ones(n) == [i \in 1..n |-> 1]

RECURSIVE Normalize(_)
Normalize(b) == IF b # <<>> /\ Head(b) = 0 THEN Normalize(Tail(b)) ELSE b

Wide(neg, mag) == [neg |-> neg /\ mag # <<>>, mag |-> mag]
WideZero == Wide(FALSE, <<>>)
Pow2(k) == <<1>> \o Zeros(k)

\* b + 1 within the width of b: all ones wraps to all zeros.
RECURSIVE IncW(_)
IncW(b) ==
    IF b = <<>> THEN <<>>
    ELSE IF b[Len(b)] = 0 THEN SubSeq(b, 1, Len(b) - 1) \o <<1>>
    ELSE IncW(SubSeq(b, 1, Len(b) - 1)) \o <<0>>

\* b - 1 within the width of b: all zeros wraps to all ones.
RECURSIVE DecW(_)
DecW(b) ==
    IF b = <<>> THEN <<>>
    ELSE IF b[Len(b)] = 1 THEN SubSeq(b, 1, Len(b) - 1) \o <<0>>
    ELSE DecW(SubSeq(b, 1, Len(b) - 1)) \o <<1>>

\* magnitude + 1 and magnitude - 1 (of a magnitude above zero)
Inc(mag) == Normalize(IncW(<<0>> \o mag))
Dec(mag) == Normalize(DecW(mag))

RECURSIVE Add(_, _)
Add(mag, d) == IF d = 0 THEN mag ELSE IF d > 0 THEN Add(Inc(mag), d - 1) ELSE Add(Dec(mag), d + 1)

Invert(b) == [i \in 1..Len(b) |-> 1 - b[i]]

\* The w-bit two's complement pattern of x: x modulo 2^w.
Pad(mag, w) ==
    IF Len(mag) >= w THEN SubSeq(mag, Len(mag) - w + 1, Len(mag))
    ELSE Zeros(w - Len(mag)) \o mag
Pattern(x, w) == IF x.neg THEN IncW(Invert(Pad(x.mag, w))) ELSE Pad(x.mag, w)

\* The pattern read as an unsigned and as a signed number.
Unsigned(p) == Wide(FALSE, Normalize(p))
Signed(p) ==
    IF p # <<>> /\ Head(p) = 1
    THEN Wide(TRUE, Normalize(IncW(Invert(p))))
    ELSE Wide(FALSE, Normalize(p))

\* The value range of intW and uintW.
FitsSigned(x, w) ==
    \/ Len(x.mag) <= w - 1
    \/ x.neg /\ x.mag = Pow2(w - 1)
FitsUnsigned(x, w) == ~x.neg /\ Len(x.mag) <= w

\* (double)x for an integer x: the nearest float64, ties to even.
ToFloat64(x) ==
    IF Len(x.mag) <= Float64Bits THEN x
    ELSE LET top == SubSeq(x.mag, 1, Float64Bits)
             rest == SubSeq(x.mag, Float64Bits + 1, Len(x.mag))
             sticky == \E i \in 2..Len(rest) : rest[i] = 1
             up == rest[1] = 1 /\ (sticky \/ top[Float64Bits] = 1)
             kept == IF up THEN Inc(top) ELSE top
         IN  Wide(x.neg, kept \o Zeros(Len(rest)))

\* Engine numbers: an int32 payload or a float64 payload (here always an
\* integer), and booleans.
JSNumber(tag, x) == [tag |-> tag, x |-> x]

\* JS_NewBool, JS_NewInt32
JS_NewBool(bv) == JSNumber("bool", bv)
JS_NewInt32(x) == JSNumber("int", x)
\* JS_NewInt64: val == (int32_t)val ? JS_NewInt32 : __JS_NewFloat64
JS_NewInt64Wide(x) ==
    IF FitsSigned(x, Int32Bits) THEN JSNumber("int", x)
    ELSE JSNumber("float64", ToFloat64(x))
\* JS_NewUint32: val <= 0x7fffffff ? JS_NewInt32 : __JS_NewFloat64
JS_NewUint32(x) ==
    IF FitsSigned(x, Int32Bits) THEN JSNumber("int", x)
    ELSE JSNumber("float64", ToFloat64(x))

\* JS_ToBool
JS_ToBool(v) == IF v.tag = "bool" THEN v.x ELSE IF v.x = WideZero THEN 0 ELSE 1
\* JS_ToInt64, JS_ToInt32 of a number: an int32 payload as it is, a float64
\* payload modulo 2^64 (2^32).
JS_ToInt64Wide(v) == IF v.tag = "int" THEN v.x ELSE Signed(Pattern(v.x, Int64Bits))
JS_ToInt32(v) == Signed(Pattern(v.x, Int32Bits))
\* JS_ToUint32 is JS_ToInt32 stored through a uint32_t pointer.
JS_ToUint32(v) == Unsigned(Pattern(JS_ToInt32(v), Int32Bits))

\* func (ctx *Context) Bool / Int32 / Int64 / Uint32
ContextBool(b) == JS_NewBool(IF b THEN 1 ELSE 0)
ContextInt32(x) == JS_NewInt32(x)
ContextInt64(x) == JS_NewInt64Wide(x)
ContextUint32(x) == JS_NewUint32(x)
\* func (v Value) Bool / Int32 / Int64 / Uint32
ValueBool(v) == JS_ToBool(v) = 1
ValueInt32(v) == JS_ToInt32(v)
ValueInt64Wide(v) == JS_ToInt64Wide(v)
ValueUint32(v) == JS_ToUint32(v)

(***************************************************************************)
(* ConvSpec: one host value of each kind, made into a Value by its         *)
(* constructor and converted back by the matching conversion.              *)
(***************************************************************************)
\* The powers of two around which the inputs lie: the ends of the int32,
\* uint32 and int64 ranges and of the range a float64 holds exactly.
Exps == {0, 1, 30, 31, 32, 52, 53, 54, 62, 63}
\* Inputs lie within MaxOffset of a power of two.
MaxOffset == 1

Magnitudes == {<<>>} \cup {Add(Pow2(k), d) : k \in Exps, d \in (-MaxOffset)..MaxOffset}
Wides == {Wide(neg, mag) : neg \in BOOLEAN, mag \in Magnitudes}
Int32Inputs == {x \in Wides : FitsSigned(x, Int32Bits)}
Uint32Inputs == {x \in Wides : FitsUnsigned(x, Int32Bits)}
Int64Inputs == {x \in Wides : FitsSigned(x, Int64Bits)}
StringInputs == ByteStrings(MaxLen)

ConvInputs ==
    {Conv("bool", b, "none", FALSE) : b \in BOOLEAN}
        \cup {Conv("int32", x, "none", FALSE) : x \in Int32Inputs}
        \cup {Conv("uint32", x, "none", FALSE) : x \in Uint32Inputs}
        \cup {Conv("int64", x, "none", FALSE) : x \in Int64Inputs}
        \cup {Conv("string", s, "none", FALSE) : s \in StringInputs}

Converted(out) ==
    /\ conv' = Conv(conv.kind, conv.in, out, TRUE)
    /\ UNCHANGED <<baseVars, regVars, jobVars, resVars, progVars, workVars, fobj>>

\* ctx.Bool(x).Bool()
ConvBool == ~conv.done /\ conv.kind = "bool" /\ Converted(ValueBool(ContextBool(conv.in)))
\* ctx.Int32(x).Int32()
ConvInt32 == ~conv.done /\ conv.kind = "int32" /\ Converted(ValueInt32(ContextInt32(conv.in)))
\* ctx.Uint32(x).Uint32()
ConvUint32 == ~conv.done /\ conv.kind = "uint32" /\ Converted(ValueUint32(ContextUint32(conv.in)))
\* ctx.Int64(x).Int64()
ConvInt64 == ~conv.done /\ conv.kind = "int64" /\ Converted(ValueInt64Wide(ContextInt64(conv.in)))
\* ctx.String(s).String()
ConvString == ~conv.done /\ conv.kind = "string" /\ Converted(ValueString(ContextString(conv.in)))

ConvInit ==
    /\ BaseInit
    /\ RegInit
    /\ variant = "explicit"
    /\ JobInit
    /\ ResInit
    /\ ProgInit("none")
    /\ WorkInit("none")
    /\ conv \in ConvInputs
    /\ fobj = <<>>

ConvNext ==
    \/ ConvBool
    \/ ConvInt32
    \/ ConvUint32
    \/ ConvInt64
    \/ ConvString

ConvSpec == ConvInit /\ [][ConvNext]_vars

\* C17: for every bool, int32, uint32 and int64 x, the extremes of each
\* range and int64 values above 2^53 in magnitude included, the Value made
\* by ctx.Bool / Int32 / Uint32 / Int64 converts back to exactly x.
C17_NumbersRoundTrip ==
    conv.done /\ conv.kind \in {"bool", "int32", "uint32", "int64"} =>
        conv.out = conv.in

\* C18: for every host string s, the empty string and strings holding a
\* zero byte included, ctx.String(s).String() equals s byte for byte.
C18_StringsRoundTrip ==
    conv.done /\ conv.kind = "string" => conv.out = conv.in

(***************************************************************************)
(* PropertySpec: properties set and read by name on an object and on an    *)
(* array, elements set and read by index on the array.                     *)
(***************************************************************************)
\* The property a host name selects: the name up to its first zero byte.
Key(name) == GoString(CString(name))

\* The names the host sets: with and without a zero byte, and "length".
SetNames == {<<>>, <<97>>, <<97, NUL>>, <<97, NUL, 97>>, <<97, 97>>, StrLength}

PropertyNext ==
    \/ \E name \in SetNames : Set("object", name, JSStr(<<97>>))
    \/ \E name \in {<<97>>, StrLength} : Set("array", name, JSInt(1))
    \/ \E name \in {<<97>>, <<97, NUL>>} : Get("object", name)
    \/ \E idx \in 0..MaxIndex, val \in ObjValues : SetByInt64("array", idx, val)
    \/ \E idx \in 0..MaxIndex : GetByUint32("array", idx)

PropertySpec == Init /\ [][PropertyNext]_vars

\* What the object of the most recent call is now and was before the call.
Now == objs[call.obj]
Before == call.before

OtherElementsUnchanged ==
    \A i \in 0..MaxIndex :
        (call.op = "SetByInt64" => i # call.idx) =>
            ValueGetByUint32(Now, i) = ValueGetByUint32(Before, i)

ArrayNext ==
    \/ \E idx \in Indices, val \in ObjValues : SetByInt64("array", idx, val)
    \/ Len64("array")
    \/ \E idx \in 0..MaxIndex : GetByUint32("array", idx)

ArraySpec == Init /\ [][ArrayNext]_vars

\* The slots of the array that have been assigned.
Slots == DOMAIN objs["array"].elems
Max(S) == CHOOSE x \in S : \A y \in S : y <= x

\* C20: for an array built by any sequence of SetByInt64 calls, in any
\* order, with or without gaps or repeated indices, Len() is the number
\* of distinct slots assigned.
C20_LenCountsSlots ==
    call.op = "Len" => call.res = JSInt(Cardinality(Slots))

\* C20, amended: Len() is one more than the largest index assigned, and 0
\* when none was; it is the number of distinct slots only when the indices
\* assigned are 0..n-1 without a gap.  A negative index names an ordinary
\* property and does not count.
C20_LenIsLargestIndexPlusOne ==
    call.op = "Len" =>
        /\ call.res = JSInt(IF Slots = {} THEN 0 ELSE Max(Slots) + 1)
        /\ Slots = 0..(Cardinality(Slots) - 1) => call.res = JSInt(Cardinality(Slots))

\* Len() of an array with a gap: one slot assigned, the last one.
C20_Witness ==
    /\ call.op = "Len"
    /\ Slots = {MaxIndex}
    /\ call.res = JSInt(MaxIndex + 1)
    /\ StrMinusOne \in DOMAIN objs["array"].props

(***************************************************************************)
(* TrampolineSpec: the engine invoking the trampoline with any token, one  *)
(* the registry issued or one it never did.                                *)
(***************************************************************************)
\* The tokens the engine may pass: the registry issues 0..funcPtrLen-1.
Tokens == 0..MaxFuncs

\* The engine calls a shim bound to token id on context c, which calls
\* proxy(ctx, this, argc, argv) with argv[0] = id.  A panic of the host
\* inside the callback ends the process: nothing is returned.
InvokeProxy(c, id) ==
    /\ ~panicked
    /\ ctxAlive[c]
    /\ LET r == ShimCall(JSFunc(JS_NewInt64(id)), JS_UNDEFINED, <<>>, exception)
       IN  IF r.panic
           THEN /\ panicked' = TRUE
                /\ UNCHANGED <<exception, ret>>
           ELSE /\ exception' = r.exc
                /\ ret' = Ret("proxy", c, NoScript, r.val, NilErr, r.invoked, FALSE)
                /\ UNCHANGED panicked
    /\ UNCHANGED <<ctxAlive, ctxGlobals, ctxProxy, globalObj, funcPtrLen,
                   funcPtrStore, fnState, exposed>>
    /\ UNCHANGED <<regVars, jobVars, extVars>>

TrampolineNext ==
    \/ \E c \in Contexts, n \in Names : SetFunction(c, n, RetFn(JSInt(c)), TRUE)
    \/ \E c \in Contexts, id \in Tokens : InvokeProxy(c, id)

TrampolineSpec == Init /\ [][TrampolineNext]_vars

\* C21: when the trampoline is invoked with a token the registry never
\* issued, the host fails fatally: no closure runs and no Value is returned
\* (the record of the last return is untouched), no exception becomes
\* pending, and the registry is as it was.
C21_UnknownTokenIsFatal ==
    [][\A c \in Contexts, id \in Tokens :
          (InvokeProxy(c, id) /\ id \notin DOMAIN funcPtrStore) =>
              /\ panicked'
              /\ ret' = ret
              /\ exception' = exception
              /\ funcPtrStore' = funcPtrStore
              /\ funcPtrLen' = funcPtrLen]_vars

\* The host has failed in the trampoline while the registry held entries:
\* every closure registered here is non-nil, so the token was unknown.
C21_Witness ==
    /\ panicked
    /\ DOMAIN funcPtrStore # {}
    /\ \A id \in DOMAIN funcPtrStore : funcPtrStore[id].fn # NilFn

\* C22: when Eval fails because the script does not parse, the Value it
\* returns is not exception-marked and the error it returns is populated.
C22_SyntaxErrorValueNotException ==
    (ret.op = "Eval" /\ ret.script.kind = "syntax") =>
        /\ ~IsException(ret.val)
        /\ ret.err # NilErr

\* C22, as the code has it: when Eval fails because the script does not
\* parse, the Value it returns is the exception marker, as for a script
\* that throws, and the error it returns is populated: a SyntaxError with
\* its message and stack.
C22_SyntaxErrorValueIsException ==
    (ret.op = "Eval" /\ ret.script.kind = "syntax") =>
        /\ IsException(ret.val)
        /\ ret.err # NilErr
        /\ ret.err = ValueError(JSErrorObj(ClassSyntaxError, <<97>>, EngineStack))

\* An Eval of a script that does not parse has returned.
C22_Witness ==
    /\ ret.op = "Eval"
    /\ ret.script.kind = "syntax"
    /\ IsException(ret.val)
    /\ ret.err.kind = "Error"

\* C23: every Atom in the list Value.PropertyNames returns still holds its
\* enumeration reference when the caller receives it: the wrapper has not
\* released any Atom that the caller may go on to pass to Atom.String or
\* Value.GetByAtom.
C23_ReturnedAtomsStillHeld ==
    (call.op = "PropertyNames" /\ ~IsException(call.res)) =>
        \A i \in 1..call.res.n :
            \A j \in 1..Len(events) : events[j] # ReleaseAt("atom", i)

(***************************************************************************)
(* FinalizerSpec: the finalizer variant (src/quickjs.go 493-997).  A host  *)
(* makes function objects with Context.Function and binds them to globals, *)
(* the Go collector runs the finalizers Context.Function has set, and      *)
(* scripts call the globals.                                               *)
(***************************************************************************)
FObj(c, ptr, fn, refs, owner, finalized, removed) ==
    [ctx |-> c, ptr |-> ptr, fn |-> fn, refs |-> refs, owner |-> owner,
     finalized |-> finalized, removed |-> removed]

\* The script value of the k-th function object.
FuncVal(k) == JSFunc(JSInt(k))

\* func storeFuncPtr(v Function) unsafe.Pointer of the finalizer variant,
\* run without interruption; ptr is the address C.malloc answered.
FinalizerStoreFuncPtr(store, v, ptr) ==
    IF v = NilFn
    THEN [ptr |-> NilPtr, store |-> store]
    ELSE [ptr |-> ptr, store |-> MapPut(store, ptr, funcEntry(NoCtx, v))]

\* func restoreFuncPtr(ptr unsafe.Pointer) Function of the finalizer variant
FinalizerRestoreFuncPtr(store, ptr) ==
    IF ptr = NilPtr THEN NilFn ELSE MapGet(store, ptr).fn

\* func freeFuncPtr(ptr unsafe.Pointer): delete(funcPtrStore, ptr); C.free(ptr)
FinalizerFreeFuncPtr(store, mem, ptr) ==
    IF ptr = NilPtr
    THEN [store |-> store, heap |-> mem]
    ELSE [store |-> MapDelete(store, ptr), heap |-> mem \ {ptr}]

\* JS_FreeValue(ctx, v) on the k-th function object: one reference less;
\* at none the engine frees the object.
JS_FreeValue(objects, k) ==
    [objects EXCEPT ![k].refs = IF @ > 0 THEN @ - 1 ELSE 0]

\* The call reads or frees an object the engine has already freed: the
\* process may crash there or go on with the stale memory.
Undefined(stale) ==
    IF stale THEN panicked' \in BOOLEAN ELSE panicked' = FALSE

\* func (c Context) Function(fp Function) Value of the finalizer variant.
\* ok: JS_NewObjectClass made the object that carries the pointer.
FinalizerFunction(c, fp, ok) ==
    /\ ~panicked
    /\ variant = "finalizer"
    /\ Len(fobj) < MaxFuncs
    /\ IF ~ok
       THEN /\ exception' = JS_Throw(exception, c, ShimFailure)
            /\ ret' = Ret("Function", c, NoScript, JS_EXCEPTION, NilErr, <<>>, FALSE)
            /\ UNCHANGED <<funcPtrStore, heap, fobj, panicked>>
       ELSE IF fp # NilFn /\ Addrs \ heap = {}
       THEN /\ panicked' = TRUE
            /\ UNCHANGED <<exception, ret, funcPtrStore, heap, fobj>>
       ELSE \E a \in IF fp = NilFn THEN {NilPtr} ELSE Addrs \ heap :
               LET s == FinalizerStoreFuncPtr(funcPtrStore, fp, a)
               IN  /\ funcPtrStore' = s.store
                   /\ heap' = IF s.ptr = NilPtr THEN heap ELSE heap \cup {s.ptr}
                   /\ fobj' = Append(fobj, FObj(c, s.ptr, fp, 1, "host", FALSE, 0))
                   /\ ret' = Ret("Function", c, NoScript, FuncVal(Len(fobj) + 1),
                                 NilErr, <<>>, FALSE)
                   /\ UNCHANGED <<exception, panicked>>
    /\ UNCHANGED <<ctxAlive, ctxGlobals, ctxProxy, globalObj, funcPtrLen, fnState, exposed>>
    /\ UNCHANGED <<variant, funcPtrLock, pc, local, returned, nStores>>
    /\ UNCHANGED <<jobVars, resVars, progVars, workVars, conv>>

\* globals.Set(name, fn) with the Value Context.Function returned:
\* JS_SetPropertyStr takes the host's reference over for the property and
\* frees the value the property held.
FinalizerSet(c, n, k) ==
    /\ ~panicked
    /\ variant = "finalizer"
    /\ k \in 1..Len(fobj)
    /\ fobj[k].ctx = c
    /\ fobj[k].owner = "host"
    /\ LET old == globalObj[c][n]
           handed == [fobj EXCEPT ![k].owner = "engine"]
       IN  /\ globalObj' = [globalObj EXCEPT ![c][n] = FuncVal(k)]
           /\ fobj' = IF old.tag = "function" THEN JS_FreeValue(handed, old.n) ELSE handed
           /\ Undefined(fobj[k].refs = 0 \/ (old.tag = "function" /\ fobj[old.n].refs = 0))
    /\ UNCHANGED <<ctxAlive, exception, ctxGlobals, ctxProxy, funcPtrLen, funcPtrStore,
                   fnState, exposed, ret>>
    /\ UNCHANGED <<regVars, jobVars, resVars, progVars, workVars, conv>>

\* The collector runs the finalizer Context.Function set on its local fn,
\* which nothing refers to once Function has returned:
\* C.JS_FreeValue(fn.ctx, fn.ref); freeFuncPtr(funcPtr).
FinalizerRun(k) ==
    /\ ~panicked
    /\ variant = "finalizer"
    /\ k \in 1..Len(fobj)
    /\ ~fobj[k].finalized
    /\ LET f == FinalizerFreeFuncPtr(funcPtrStore, heap, fobj[k].ptr)
       IN  /\ funcPtrStore' = f.store
           /\ heap' = f.heap
    /\ fobj' = [JS_FreeValue(fobj, k) EXCEPT ![k].finalized = TRUE,
                                             ![k].removed = @ + 1]
    /\ Undefined(fobj[k].refs = 0)
    /\ UNCHANGED <<ctxAlive, exception, ctxGlobals, ctxProxy, globalObj, funcPtrLen,
                   fnState, exposed, ret>>
    /\ UNCHANGED <<variant, funcPtrLock, pc, local, returned, nStores>>
    /\ UNCHANGED <<jobVars, resVars, progVars, workVars, conv>>

\* func proxy(ctx, thisVal, argc, argv, _, funcData) of the finalizer
\* variant, for the function object k: a nil fn is called and panics.
FinalizerProxy(store, k, c, exc) ==
    LET fn == FinalizerRestoreFuncPtr(store, fobj[k].ptr)
    IN  IF fn = NilFn
        THEN Outcome(JS_EXCEPTION, exc, <<>>, TRUE)
        ELSE LET r == CallClosure(fn, c, exc)
             IN  Outcome(r.val, r.exc,
                         <<Invocation(FuncVal(k), funcEntry(c, fn), JS_UNDEFINED, <<>>)>>,
                         FALSE)

\* A script of context c calls its global n, a function object.
FinalizerInvoke(c, n) ==
    /\ ~panicked
    /\ variant = "finalizer"
    /\ globalObj[c][n].tag = "function"
    /\ LET k == globalObj[c][n].n
           r == FinalizerProxy(funcPtrStore, k, c, exception)
       IN  IF r.panic
           THEN /\ panicked' = TRUE
                /\ UNCHANGED <<exception, ret>>
           ELSE /\ exception' = r.exc
                /\ ret' = Ret("proxy", c, CallScript(n, <<>>), r.val, NilErr, r.invoked, FALSE)
                /\ Undefined(fobj[k].refs = 0)
    /\ UNCHANGED <<ctxAlive, ctxGlobals, ctxProxy, globalObj, funcPtrLen, funcPtrStore,
                   fnState, exposed>>
    /\ UNCHANGED <<regVars, jobVars, resVars, progVars, workVars, conv, fobj>>

FinalizerInit ==
    /\ BaseInit
    /\ RegInit
    /\ variant = "finalizer"
    /\ JobInit
    /\ ResInit
    /\ MoreInit

\* The closures the host exposes.
FinalizerFns == {NilFn, RetFn(JSInt(1)), RetFn(JSInt(2))}

FinalizerNext ==
    \/ \E c \in Contexts, fp \in FinalizerFns, ok \in BOOLEAN : FinalizerFunction(c, fp, ok)
    \/ \E c \in Contexts, n \in Names, k \in 1..MaxFuncs : FinalizerSet(c, n, k)
    \/ \E k \in 1..MaxFuncs : FinalizerRun(k)
    \/ \E c \in Contexts, n \in Names : FinalizerInvoke(c, n)

FinalizerSpec == FinalizerInit /\ [][FinalizerNext]_vars

\* A script of the function object's context can call it.
ScriptCanReach(k) ==
    \E n \in Names : globalObj[fobj[k].ctx][n] = FuncVal(k)

\* C24: in the finalizer variant the registry entry of a function that
\* Context.Function exposed is removed at most once, and it is not removed
\* while a script can still call the function: for every function a script
\* can reach, restoreFuncPtr yields the non-nil closure that was registered.
C24_EntryKeptWhileScriptCanCall ==
    \A k \in 1..Len(fobj) :
        /\ fobj[k].removed <= 1
        /\ (fobj[k].fn # NilFn /\ ScriptCanReach(k)) =>
              FinalizerRestoreFuncPtr(funcPtrStore, fobj[k].ptr) = fobj[k].fn

(***************************************************************************)
(* CallbackSpec: scripts of several runtimes, one per thread, call         *)
(* exposed functions.  proxy looks the entry up and runs its closure, and  *)
(* the closure may call Context.Function, which stores a new entry, all    *)
(* one statement at a time next to the host's own Context.Function calls.  *)
(***************************************************************************)
\* The deferred funcPtrLock.Unlock() of a call that holds the mutex.
DeferredUnlockSkipped(lock, t) == lock
DeferredUnlock(lock, t) == IF lock = t THEN NoThread ELSE lock

cbVars == <<evalVars, variant, heap, nStores, jobVars, extVars>>

\* The tokens of the functions a script can call: those Context.Function
\* has returned to the host or to a closure.
Callable == {e.val.n : e \in exposed} \cup Issued

\* The engine calls proxy on thread t with the token of an exposed function:
\* entry := restoreFuncPtr(int64(id))
ProxyEnter(t, id) ==
    /\ ~panicked
    /\ pc[t] = "idle"
    /\ id \in Callable
    /\ local' = SetLocal(t, Local(ZeroEntry, id, ZeroEntry, TRUE))
    /\ pc' = Goto(t, "cb_restore_lock")
    /\ UNCHANGED <<cbVars, funcPtrLen, funcPtrStore, panicked, funcPtrLock, returned>>

\* funcPtrLock.Lock() of restoreFuncPtr, called by proxy
ProxyRestoreLock(t) ==
    /\ ~panicked
    /\ pc[t] = "cb_restore_lock"
    /\ LockIsFree(funcPtrLock)
    /\ funcPtrLock' = t
    /\ pc' = Goto(t, "cb_restore_read")
    /\ UNCHANGED <<cbVars, funcPtrLen, funcPtrStore, panicked, local, returned>>

\* return funcPtrStore[ptr] with its deferred Unlock; proxy then calls
\* entry.fn(entry.ctx, ...), and a nil fn panics.
ProxyRestoreRead(t) ==
    /\ ~panicked
    /\ pc[t] = "cb_restore_read"
    /\ LET entry == restoreFuncPtr(funcPtrStore, local[t].ptr)
       IN  /\ local' = SetLocal(t, [local[t] EXCEPT !.res = entry])
           /\ panicked' = (entry.fn = NilFn)
    /\ funcPtrLock' = DeferredUnlock(funcPtrLock, t)
    /\ pc' = Goto(t, "cb_closure")
    /\ UNCHANGED <<cbVars, funcPtrLen, funcPtrStore, returned>>

\* The closure calls ctx.Function(fn): once the shim is built,
\* storeFuncPtr(funcEntry{ctx, fn}) takes its token:
\* id := atomic.AddInt64(&funcPtrLen, 1) - 1
ClosureFunction(t) ==
    /\ ~panicked
    /\ pc[t] = "cb_closure"
    /\ funcPtrLen < MaxFuncs
    /\ funcPtrLen' = AddInt64(funcPtrLen)
    /\ local' = SetLocal(t, [local[t] EXCEPT !.v = ThreadEntry(t, funcPtrLen),
                                             !.ptr = storeFuncPtrId(funcPtrLen)])
    /\ pc' = Goto(t, "cb_store_lock")
    /\ UNCHANGED <<cbVars, funcPtrStore, panicked, funcPtrLock, returned>>

\* funcPtrLock.Lock() of storeFuncPtr, called inside the closure
ClosureStoreLock(t) ==
    /\ ~panicked
    /\ pc[t] = "cb_store_lock"
    /\ LockIsFree(funcPtrLock)
    /\ funcPtrLock' = t
    /\ pc' = Goto(t, "cb_store_write")
    /\ UNCHANGED <<cbVars, funcPtrLen, funcPtrStore, panicked, local, returned>>

\* funcPtrStore[id] = v; return id, after the deferred
\* funcPtrLock.Unlock(); the closure goes on.
ClosureStoreWrite(t) ==
    /\ ~panicked
    /\ pc[t] = "cb_store_write"
    /\ funcPtrStore' = MapPut(funcPtrStore, local[t].ptr, local[t].v)
    /\ funcPtrLock' = DeferredUnlock(funcPtrLock, t)
    /\ returned' = returned \cup {[ptr |-> local[t].ptr, v |-> local[t].v]}
    /\ pc' = Goto(t, "cb_closure")
    /\ UNCHANGED <<cbVars, funcPtrLen, panicked, local>>

\* The closure returns and proxy hands its result to the engine.
ProxyReturn(t) ==
    /\ ~panicked
    /\ pc[t] = "cb_closure"
    /\ local' = SetLocal(t, NoLocal)
    /\ pc' = Goto(t, "idle")
    /\ UNCHANGED <<cbVars, funcPtrLen, funcPtrStore, panicked, funcPtrLock, returned>>

\* The statements of thread t inside a callback.
Callback(t) ==
    \/ ProxyRestoreLock(t)
    \/ ProxyRestoreRead(t)
    \/ ClosureFunction(t)
    \/ ClosureStoreLock(t)
    \/ ClosureStoreWrite(t)
    \/ ProxyReturn(t)

\* ctx.Function(fn) of the host, run without interruption once the lock
\* is free.
HostFunction(c) ==
    /\ LockIsFree(funcPtrLock)
    /\ Function(c, RetFn(JSInt(c)), TRUE)

CallbackNext ==
    \/ HostFunction(EvalCtx)
    \/ \E t \in Threads, id \in Tokens : ProxyEnter(t, id)
    \/ \E t \in Threads : Callback(t)

\* A thread that can run goes on running, and sync.Mutex hands the lock to
\* a thread that keeps waiting for it.
CallbackSpec ==
    /\ Init
    /\ [][CallbackNext]_vars
    /\ \A t \in Threads : SF_vars(Callback(t))

\* The statements at which a thread is inside storeFuncPtr or
\* restoreFuncPtr on behalf of a callback.
InRegistry ==
    {"cb_restore_lock", "cb_restore_read", "cb_store_lock", "cb_store_write"}

\* C25: the registry lock is not held by a thread whose closure runs, so
\* the registry operations of a closure that calls Context.Function and of
\* closures running concurrently on several runtimes always complete: no
\* thread stays inside storeFuncPtr or restoreFuncPtr for ever.
C25_ClosureRunsWithoutLock ==
    /\ [](\A t \in Threads : pc[t] = "cb_closure" => funcPtrLock # t)
    /\ \A t \in Threads :
          (pc[t] \in InRegistry) ~> (pc[t] = "cb_closure" \/ panicked)

\* A closure that called Context.Function is storing its entry under the
\* lock while the callback of another thread waits for the lock or runs
\* its closure.
C25_Witness ==
    \E t, u \in Threads :
        /\ pc[t] = "cb_store_write"
        /\ funcPtrLock = t
        /\ pc[u] \in {"cb_restore_lock", "cb_closure"}

\* What a Context.Function whose shim the engine could not build leaves
\* alone: the registry, the token counter and the cached trampoline.
FailedFunctionAddsNothing(c) ==
    /\ ret'.op = "Function" /\ ret'.ctx = c /\ IsException(ret'.val)
    /\ funcPtrStore' = funcPtrStore
    /\ funcPtrLen' = funcPtrLen
    /\ ctxProxy' = ctxProxy
    /\ acquired' = acquired

\* C26: if building the shim inside Context.Function fails, Function
\* returns the exception-marked Value, adds no registry entry, consumes no
\* token and does not create the cached trampoline, and it leaves no
\* exception pending on the context when it returns.
C26_FailedFunctionLeavesNothingPending ==
    [][\A c \in Contexts :
          Function(c, RetFn(JS_NULL), FALSE) =>
              /\ FailedFunctionAddsNothing(c)
              /\ exception'[c] = NoException]_vars

\* C26, as the code has it: if building the shim inside Context.Function
\* fails, Function returns the exception-marked Value, adds no registry
\* entry, consumes no token and does not create the cached trampoline; the
\* engine's exception stays pending on the context, and no other context's
\* slot changes.
C26_FailedFunctionKeepsExceptionPending ==
    [][\A c \in Contexts :
          Function(c, RetFn(JS_NULL), FALSE) =>
              /\ FailedFunctionAddsNothing(c)
              /\ exception'[c] = ShimFailure
              /\ \A d \in Contexts \ {c} : exception'[d] = exception[d]]_vars

\* A Context.Function whose shim failed has returned on a context that
\* already has a function and its trampoline.
C26_Witness ==
    /\ ret.op = "Function"
    /\ IsException(ret.val)
    /\ exception[ret.ctx] = ShimFailure
    /\ ctxProxy[ret.ctx]
    /\ funcPtrLen > 0
    /\ funcPtrLen < MaxFuncs
=============================================================================
